---- MODULE Spec2Model ----
(***************************************************************************)
(* A model of the saucebox audio core:                                     *)
(*   - MixPredictor      (sauce_maximizer/models/flavor_predictor.py)      *)
(*   - AudioProcessor    (sauce_maximizer/core/optimizer.py)               *)
(*   - MixAnalyzer's chain suggestion (sauce_maximizer/core/analyzer.py)   *)
(*                                                                         *)
(* Numbers are fixed point.  Samples, ratios, drive and dynamic range are  *)
(* in hundredths (100 is 1.0); decibels and gains are in tenths of a dB.   *)
(***************************************************************************)
EXTENDS Integers, Sequences, FiniteSets, TLC

VARIABLES
    \* ---- MixPredictor fields (flavor_predictor.py:15-21)
    model_type, quality_model, scaler, feature_names, is_trained,
    \* ---- callers of the one shared MixPredictor: position and locals
    pc, loc, outcome,
    \* ---- history of the predictor (not program state)
    names_run, nops, nruns, npred, fit_done, prepared, raw, completed,
    \* ---- AudioProcessor (optimizer.py:26-30): the buffers alive in the
    \* process, the history field, and the record of the last call
    heap, processing_history, presets_db, last, ncalls, nchain,
    \* ---- decision engine: the feature record under decision and the
    \* last decision made on it
    audio_features, decision, first_decision,
    \* ---- MixAnalyzer (analyzer.py:48-57) and SimpleAnalyzer
    \* (simple_analyzer.py:13-15): the module flag, their fields and the
    \* record of the last analysis call
    HAS_LIBROSA, analysis_cache, last_analysis, analysis,
    \* ---- the record of the last whole predict_mix_quality or
    \* _analyze_improvement_areas call of a synchronous caller
    assessment

predVars == <<model_type, quality_model, scaler, feature_names, is_trained,
              pc, loc, outcome, names_run, nops, nruns, npred, fit_done,
              prepared, raw, completed>>

procVars == <<heap, processing_history, presets_db, last, ncalls, nchain>>

decVars == <<audio_features, decision, first_decision>>

extVars == <<HAS_LIBROSA, analysis_cache, last_analysis, analysis>>

assessVars == <<assessment>>

vars == <<predVars, procVars, decVars, extVars, assessVars>>

(***************************************************************************)
(* Bounds                                                                  *)
(***************************************************************************)
NumThreads == 2
MaxOps == 3
MaxCalls == 2
\* Rows of one training frame.
NumRows == 5

Threads == 1..NumThreads

(***************************************************************************)
(* MixPredictor                                                            *)
(*                                                                         *)
(* A fitted scaler or regressor is represented by the data it was fitted   *)
(* on: run r > 0 names the data set of the r-th training call, and an      *)
(* artifact on disk is the snapshot of a run of its own.                   *)
(***************************************************************************)
NoRun == 0

NoneModel == [kind |-> "None", fitted |-> FALSE, run |-> NoRun]

\* The rows of a training frame, and the rows of its run a scaler was
\* fitted on.
Rows == 1..NumRows

NewScaler == [fitted |-> FALSE, run |-> NoRun, rows |-> {}]

\* validation_split in hundredths; 0.2 is the default.
ValidationSplits == {0, 20, 50}

\* train_test_split(X, y, test_size=validation_split, random_state=42): the
\* test part has ceil(test_size * n) rows and both parts must be non-empty,
\* with test_size strictly between 0 and 1.
TestSize(validation_split) == (validation_split * NumRows + 99) \div 100

SplitOk(validation_split) ==
    /\ validation_split > 0
    /\ validation_split < 100
    /\ TestSize(validation_split) < NumRows

\* The rows that end up in X_val; the permutation of random_state=42 is
\* stood in for by the one that puts the last rows there.
ValidationRows(validation_split) ==
    IF SplitOk(validation_split)
      THEN {i \in Rows : i > NumRows - TestSize(validation_split)}
      ELSE {}

FeatureColumns ==
    <<"spectral_centroid", "spectral_rolloff", "rms_energy", "dynamic_range",
      "bass_energy", "mid_energy", "high_energy", "stereo_width",
      "loudness_lufs", "crest_factor", "frequency_spread">>

ModelTypes == {"random_forest", "gradient_boosting", "svm"}

NotTrainedError == "ValueError: Model must be trained before prediction"

\* A caller's locals: data is the run of the (X, y) it holds from
\* prepare_training_data, run the data of the train call in progress,
\* split_ok and val_rows what train_test_split makes of its validation_split
\* (whether it succeeds, and the rows of X_val), and used_* what its predict
\* call read.
NoLoc == [data |-> NoRun, run |-> NoRun, split_ok |-> TRUE, val_rows |-> {},
          used_names |-> NoRun, used_scaler |-> NoRun, used_model |-> NoRun]

\* The snapshot a model file holds (save_model, lines 254-263).
ArtifactRun == MaxOps + 1

Artifacts == {"good", "missing"}

\* The regressor train_quality_model constructs for a model_type; an
\* unsupported type constructs nothing and leaves the stored one in place.
NewRegressor(mt, old) ==
    IF mt = "random_forest" THEN [kind |-> "rf", fitted |-> FALSE, run |-> NoRun]
    ELSE IF mt = "gradient_boosting" THEN [kind |-> "gb", fitted |-> FALSE, run |-> NoRun]
    ELSE old

PredInit ==
    /\ model_type \in ModelTypes
    /\ quality_model = NoneModel
    /\ scaler = NewScaler
    /\ feature_names = <<>>
    /\ is_trained = FALSE
    /\ pc = [t \in Threads |-> "idle"]
    /\ loc = [t \in Threads |-> NoLoc]
    /\ outcome = [op |-> "none", result |-> "none", used_names |-> NoRun,
                  used_scaler |-> NoRun, used_model |-> NoRun]
    /\ names_run = NoRun
    /\ nruns = 0
    /\ npred = 0
    /\ nops = 0
    /\ fit_done = FALSE
    /\ prepared = {}
    /\ raw = {}
    /\ completed = {}

\* The call of caller t ends: outcome keeps what the latest call to end
\* returned or raised and, for a predict call, what it had read.  The caller
\* keeps only the (X, y) it holds.
Finish(t, op, result, l) ==
    /\ pc' = [pc EXCEPT ![t] = "idle"]
    /\ outcome' = [op |-> op, result |-> result, used_names |-> l.used_names,
                   used_scaler |-> l.used_scaler, used_model |-> l.used_model]
    /\ loc' = [loc EXCEPT ![t] = [NoLoc EXCEPT !.data = l.data]]
    /\ UNCHANGED <<procVars, decVars, extVars, assessVars>>

Goto(t, label, l) ==
    /\ pc' = [pc EXCEPT ![t] = label]
    /\ loc' = [loc EXCEPT ![t] = l]
    /\ UNCHANGED <<outcome, procVars, decVars, extVars, assessVars>>

\* ---- prepare_training_data (lines 23-48) ----------------------------------
\* Line 45: the one StandardScaler object is re-fitted in place.
PrepareFit(t) ==
    /\ pc[t] = "idle"
    /\ nops < MaxOps
    /\ nops' = nops + 1
    /\ nruns' = nruns + 1
    /\ prepared' = prepared \cup {nruns + 1}
    /\ scaler' = [fitted |-> TRUE, run |-> nruns + 1, rows |-> Rows]
    /\ Goto(t, "prep_names", [NoLoc EXCEPT !.data = nruns + 1])
    /\ UNCHANGED <<model_type, quality_model, feature_names, is_trained,
                   names_run, npred, fit_done, raw, completed>>

\* Lines 46-48: feature_names is assigned, then (X, y) goes back to the caller.
PrepareNames(t) ==
    /\ pc[t] = "prep_names"
    /\ feature_names' = FeatureColumns
    /\ names_run' = loc[t].data
    /\ Finish(t, "prepare", "ok", loc[t])
    /\ UNCHANGED <<model_type, quality_model, scaler, is_trained, nops, nruns,
                   npred, fit_done, prepared, raw, completed>>

\* ---- train_quality_model (lines 50-96) ------------------------------------
\* Lines 58-72, entered with the (X, y) the caller got from
\* prepare_training_data, or with data of the caller's own.
TrainNew(t) ==
    /\ pc[t] = "idle"
    /\ \E validation_split \in ValidationSplits :
         \/ /\ loc[t].data # NoRun
            /\ Goto(t, "train_split", [NoLoc EXCEPT !.run = loc[t].data,
                                      !.split_ok = SplitOk(validation_split),
                                      !.val_rows = ValidationRows(validation_split)])
            /\ UNCHANGED <<nops, nruns, raw>>
         \/ /\ loc[t].data = NoRun
            /\ nops < MaxOps
            /\ nops' = nops + 1
            /\ nruns' = nruns + 1
            /\ raw' = raw \cup {nruns + 1}
            /\ Goto(t, "train_split", [NoLoc EXCEPT !.run = nruns + 1,
                                      !.split_ok = SplitOk(validation_split),
                                      !.val_rows = ValidationRows(validation_split)])
    /\ quality_model' = NewRegressor(model_type, quality_model)
    /\ UNCHANGED <<model_type, scaler, feature_names, is_trained, names_run,
                   npred, fit_done, prepared, completed>>

\* Lines 74-76: train_test_split raises on a split it cannot make.
TrainSplit(t) ==
    /\ pc[t] = "train_split"
    /\ IF loc[t].split_ok
         THEN Goto(t, "train_fit", loc[t])
         ELSE Finish(t, "train", "ValueError", loc[t])
    /\ UNCHANGED <<model_type, quality_model, scaler, feature_names, is_trained,
                   names_run, nops, nruns, npred, fit_done, prepared, raw,
                   completed>>

\* Line 78: fit is called on whatever self.quality_model holds now.
TrainFit(t) ==
    /\ pc[t] = "train_fit"
    /\ IF quality_model.kind = "None"
         THEN /\ Finish(t, "train", "AttributeError", loc[t])
              /\ UNCHANGED quality_model
         ELSE /\ quality_model' = [quality_model EXCEPT !.fitted = TRUE,
                                                        !.run = loc[t].run]
              /\ Goto(t, "train_flag", loc[t])
    /\ UNCHANGED <<model_type, scaler, feature_names, is_trained, names_run,
                   nops, nruns, npred, fit_done, prepared, raw, completed>>

\* Line 79.  From here on the call has fitted a model and flagged it.
TrainFlag(t) ==
    /\ pc[t] = "train_flag"
    /\ is_trained' = TRUE
    /\ fit_done' = TRUE
    /\ Goto(t, "train_metrics", loc[t])
    /\ UNCHANGED <<model_type, quality_model, scaler, feature_names, names_run,
                   nops, nruns, npred, prepared, raw, completed>>

\* Lines 81-96: score and predict read self.quality_model once more.
TrainMetrics(t) ==
    /\ pc[t] = "train_metrics"
    /\ IF quality_model.fitted
         THEN /\ Finish(t, "train", "ok", loc[t])
              /\ completed' = completed \cup {loc[t].run}
         ELSE /\ Finish(t, "train", "NotFittedError", loc[t])
              /\ UNCHANGED completed
    /\ UNCHANGED <<model_type, quality_model, scaler, feature_names, is_trained,
                   names_run, nops, nruns, npred, fit_done, prepared, raw>>

\* ---- predict_mix_quality (lines 98-131) -----------------------------------
\* The guard written as a test of the stored model instead of the flag.
PredictAllowed_ModelNotNone == quality_model.kind # "None"

\* Line 108: the guard of the "not trained" condition.
PredictAllowed == is_trained

\* Lines 108-109.
PredictCheck(t) ==
    /\ pc[t] = "idle"
    /\ nops < MaxOps
    /\ nops' = nops + 1
    /\ npred' = npred + 1
    /\ IF PredictAllowed
         THEN Goto(t, "pred_names", loc[t])
         ELSE Finish(t, "predict", NotTrainedError, loc[t])
    /\ UNCHANGED <<model_type, quality_model, scaler, feature_names, is_trained,
                   names_run, nruns, fit_done, prepared, raw, completed>>

\* Line 112: the vector is built in the order of self.feature_names.
PredictNames(t) ==
    /\ pc[t] = "pred_names"
    /\ Goto(t, "pred_scale", [loc[t] EXCEPT !.used_names = names_run])
    /\ UNCHANGED <<model_type, quality_model, scaler, feature_names, is_trained,
                   names_run, nops, nruns, npred, fit_done, prepared, raw,
                   completed>>

\* Line 113: self.scaler.transform.
PredictScale(t) ==
    /\ pc[t] = "pred_scale"
    /\ IF scaler.fitted
         THEN Goto(t, "pred_model", [loc[t] EXCEPT !.used_scaler = scaler.run])
         ELSE Finish(t, "predict", "NotFittedError", loc[t])
    /\ UNCHANGED <<model_type, quality_model, scaler, feature_names, is_trained,
                   names_run, nops, nruns, npred, fit_done, prepared, raw,
                   completed>>

\* Lines 116-131: self.quality_model.predict, then the assessment is built.
PredictModel(t) ==
    /\ pc[t] = "pred_model"
    /\ IF quality_model.kind = "None"
         THEN Finish(t, "predict", "AttributeError", loc[t])
         ELSE IF ~quality_model.fitted
         THEN Finish(t, "predict", "NotFittedError", loc[t])
         ELSE Finish(t, "predict", "ok",
                     [loc[t] EXCEPT !.used_model = quality_model.run])
    /\ UNCHANGED <<model_type, quality_model, scaler, feature_names, is_trained,
                   names_run, nops, nruns, npred, fit_done, prepared, raw,
                   completed>>

\* ---- load_model (lines 265-272) -------------------------------------------
\* Lines 267-268.
LoadQualityModel(t) ==
    /\ pc[t] = "idle"
    /\ nops < MaxOps
    /\ nops' = nops + 1
    /\ \E a \in Artifacts :
         IF a = "missing"
           THEN /\ Finish(t, "load", "FileNotFoundError", loc[t])
                /\ UNCHANGED quality_model
           ELSE /\ quality_model' = [kind |-> "rf", fitted |-> TRUE, run |-> ArtifactRun]
                /\ Goto(t, "load_scaler", loc[t])
    /\ UNCHANGED <<model_type, scaler, feature_names, is_trained, names_run,
                   nruns, npred, fit_done, prepared, raw, completed>>

\* Line 269.
LoadScaler(t) ==
    /\ pc[t] = "load_scaler"
    /\ scaler' = [fitted |-> TRUE, run |-> ArtifactRun, rows |-> Rows]
    /\ Goto(t, "load_names", loc[t])
    /\ UNCHANGED <<model_type, quality_model, feature_names, is_trained,
                   names_run, nops, nruns, npred, fit_done, prepared, raw,
                   completed>>

\* Line 270.
LoadNames(t) ==
    /\ pc[t] = "load_names"
    /\ feature_names' = FeatureColumns
    /\ names_run' = ArtifactRun
    /\ Goto(t, "load_type", loc[t])
    /\ UNCHANGED <<model_type, quality_model, scaler, is_trained, nops, nruns,
                   npred, fit_done, prepared, raw, completed>>

\* Line 271.
LoadType(t) ==
    /\ pc[t] = "load_type"
    /\ model_type' = "random_forest"
    /\ Goto(t, "load_flag", loc[t])
    /\ UNCHANGED <<quality_model, scaler, feature_names, is_trained, names_run,
                   nops, nruns, npred, fit_done, prepared, raw, completed>>

\* Line 272.
LoadFlag(t) ==
    /\ pc[t] = "load_flag"
    /\ is_trained' = TRUE
    /\ fit_done' = TRUE
    /\ Finish(t, "load", "ok", loc[t])
    /\ UNCHANGED <<model_type, quality_model, scaler, feature_names, names_run,
                   nops, nruns, npred, prepared, raw, completed>>

PredStep(t) ==
    \/ PrepareFit(t)
    \/ PrepareNames(t)
    \/ TrainNew(t)
    \/ TrainSplit(t)
    \/ TrainFit(t)
    \/ TrainFlag(t)
    \/ TrainMetrics(t)
    \/ PredictCheck(t)
    \/ PredictNames(t)
    \/ PredictScale(t)
    \/ PredictModel(t)
    \/ LoadQualityModel(t)
    \/ LoadScaler(t)
    \/ LoadNames(t)
    \/ LoadType(t)
    \/ LoadFlag(t)

\* Callers on several threads: the class takes no lock, so the statements of
\* their calls interleave freely.
PredNext == \E t \in Threads : PredStep(t)

\* Synchronous use (one call at a time, each run to its end), whoever calls.
SeqNext == \E t \in Threads : (\A u \in Threads \ {t} : pc[u] = "idle") /\ PredStep(t)

(***************************************************************************)
(* AudioProcessor: numbers                                                 *)
(***************************************************************************)
\* 1.0 in the fixed point of samples, gains and ratios.
One == 100

\* A sample that is not finite (NaN).  Buffers of the model are either
\* finite throughout or NaN throughout.
NaN == 99999

\* AudioProcessor.__init__(sample_rate=44100).
SampleRate == 44100

Nyquist == SampleRate \div 2

Abs(x) == IF x < 0 THEN -x ELSE x

Max(a, b) == IF a >= b THEN a ELSE b

Min(a, b) == IF a <= b THEN a ELSE b

\* Division that rounds toward zero, b > 0.
Div(a, b) == IF a >= 0 THEN a \div b ELSE -((-a) \div b)

IsFinite(audio) == \A i \in 1..Len(audio) : audio[i] # NaN

AllNaN(audio) == [i \in 1..Len(audio) |-> NaN]

RECURSIVE SumSq(_, _)
SumSq(audio, i) == IF i > Len(audio) THEN 0 ELSE audio[i] * audio[i] + SumSq(audio, i + 1)

MaxOf(audio) == CHOOSE m \in {audio[i] : i \in 1..Len(audio)} :
                    \A i \in 1..Len(audio) : audio[i] <= m

MinOf(audio) == CHOOSE m \in {audio[i] : i \in 1..Len(audio)} :
                    \A i \in 1..Len(audio) : audio[i] >= m

PeakOf(audio) == MaxOf([i \in 1..Len(audio) |-> Abs(audio[i])])

\* The largest r in lo..hi with r * r <= n, by bisection.
RECURSIVE SqrtBetween(_, _, _)
SqrtBetween(n, lo, hi) ==
    IF lo >= hi THEN lo
    ELSE LET mid == (lo + hi + 1) \div 2
         IN  IF mid * mid <= n THEN SqrtBetween(n, mid, hi)
             ELSE SqrtBetween(n, lo, mid - 1)

\* The integer square root (46340 is the largest root of a 32-bit integer).
Sqrt(n) == SqrtBetween(n, 0, Min(n, 46340))

\* np.sqrt(np.mean(audio**2)); NaN when the buffer is not finite.
Rms(audio) ==
    IF ~IsFinite(audio) THEN NaN ELSE Sqrt(SumSq(audio, 1) \div Len(audio))

\* d.get(key, default) of a parameter mapping.
Get(p, key, default) == IF key \in p.has THEN p[key] ELSE default

\* 10**(x/20) raises OverflowError beyond the float range (x in tenths of dB).
PowOverflows(db) == db > 61650

\* 10**(x/20) for x in tenths of a dB, in hundredths: exact to the
\* hundredth on the values the chains of this repository carry, first
\* order elsewhere.
DbToLinear(db) ==
    CASE db = -300 -> 3
      [] db = -200 -> 10
      [] db = -150 -> 18
      [] db = -120 -> 25
      [] db = 0 -> 100
      [] db = 18 -> 123
      [] db = 20 -> 126
      [] db = 25 -> 133
      [] db = 30 -> 141
      [] OTHER -> Max(1, One + Div(db * 115, 100))

\* scipy.signal.butter(2, Wn, btype='low') + sosfilt, stood in for by a
\* causal one-pole low-pass from rest with the same corner: linear,
\* length preserving, zero in gives zero out.
RECURSIVE LowPassFrom(_, _, _, _)
LowPassFrom(audio, freq, i, y) ==
    IF i > Len(audio) THEN <<>>
    ELSE LET y2 == y + Div((audio[i] - y) * freq, Nyquist)
         IN  <<y2>> \o LowPassFrom(audio, freq, i + 1, y2)

SosLow(audio, freq) ==
    IF ~IsFinite(audio) THEN AllNaN(audio) ELSE LowPassFrom(audio, freq, 1, 0)

\* btype='high': what the low-pass leaves.
SosHigh(audio, freq) ==
    IF ~IsFinite(audio) THEN AllNaN(audio)
    ELSE LET low == LowPassFrom(audio, freq, 1, 0)
         IN  [i \in 1..Len(audio) |-> audio[i] - low[i]]

\* audio + (filtered - audio) * (gain - 1)
Blend(audio, filtered, gain) ==
    IF ~IsFinite(audio) THEN AllNaN(audio)
    ELSE [i \in 1..Len(audio) |->
             audio[i] + Div((filtered[i] - audio[i]) * (gain - One), One)]

\* np.tanh in fixed point: the Pade approximant
\* x(945 + 105x^2 + x^4)/(945 + 420x^2 + 15x^4), held at +-1 beyond |x| = 3.
Tanh(x) ==
    IF Abs(x) >= 3 * One THEN (IF x < 0 THEN -One ELSE One)
    ELSE LET x2 == (x * x) \div One
             x4 == (x2 * x2) \div One
         IN  Div(x * (945 * One + 105 * x2 + x4), 945 * One + 420 * x2 + 15 * x4)

\* 1 - exp(-1/n) in thousandths, n >= 1.
SmoothCoeff(n) ==
    CASE n = 1 -> 632
      [] n = 2 -> 393
      [] n = 3 -> 283
      [] n = 4 -> 221
      [] OTHER -> (1000 * (2 * n - 1)) \div (2 * n * n)

(***************************************************************************)
(* AudioProcessor: parameter mappings, steps and chains                    *)
(*                                                                         *)
(* A mapping is a record with the set `has` of the keys it holds.  freq is *)
(* in Hz, gain and threshold in tenths of a dB, ratio in tenths, attack    *)
(* and release in ms, q and drive in hundredths.                           *)
(***************************************************************************)
\* One entry of an eq mapping, e.g. 'low_shelf': {'freq': 100, 'gain': 2.5, 'q': 0.7}.
EqEntry(name, has, freq, gain, q) ==
    [name |-> name, has |-> has, freq |-> freq, gain |-> gain, q |-> q]

\* The empty mapping {}.
NoParams ==
    [has |-> {}, eq |-> <<>>, threshold |-> 0, ratio |-> 0, attack |-> 0,
     release |-> 0, drive |-> 0, type |-> ""]

EqParams(entries) ==
    [NoParams EXCEPT !.has = {entries[i].name : i \in 1..Len(entries)},
                     !.eq = entries]

CompParams(threshold, ratio, attack, release) ==
    [NoParams EXCEPT !.has = {"threshold", "ratio", "attack", "release"},
                     !.threshold = threshold, !.ratio = ratio,
                     !.attack = attack, !.release = release]

SatParams(drive, type) ==
    [NoParams EXCEPT !.has = {"drive", "type"}, !.drive = drive, !.type = type]

Step(type, params) == [type |-> type, params |-> params]

\* dataclass ProcessingChain.
Chain(name, steps, target, improvement) ==
    [name |-> name, steps |-> steps, target_characteristics |-> target,
     estimated_improvement |-> improvement]

(***************************************************************************)
(* AudioProcessor: the primitives.  Buffers are objects of a heap (a       *)
(* sequence, the reference is the index); a primitive returns the heap,    *)
(* the reference of the buffer it returns and the text of the exception    *)
(* it raised ("" when it returned).                                        *)
(***************************************************************************)
Returned(h, ref) == [heap |-> h, ref |-> ref, err |-> ""]

\* A new array holding `audio`.
Fresh(h, audio) == [heap |-> Append(h, audio), ref |-> Len(h) + 1, err |-> ""]

Raised(h, text) == [heap |-> h, ref |-> 0, err |-> text]

OverflowText == "(34, 'Numerical result out of range')"

ButterText == "Digital filter critical frequencies must be 0 < Wn < 1"

ApplyHighShelf(h, ref, q) ==
    LET audio == h[ref]
        freq == Get(q, "freq", 8000)
        gain_db == Get(q, "gain", 0)
    IN  IF PowOverflows(gain_db) THEN Raised(h, OverflowText)
        ELSE IF freq >= Nyquist THEN Returned(h, ref)
        ELSE IF freq <= 0 THEN Raised(h, ButterText)
        ELSE Fresh(h, Blend(audio, SosHigh(audio, freq), DbToLinear(gain_db)))

ApplyLowShelf(h, ref, q) ==
    LET audio == h[ref]
        freq == Get(q, "freq", 200)
        gain_db == Get(q, "gain", 0)
    IN  IF PowOverflows(gain_db) THEN Raised(h, OverflowText)
        ELSE IF freq >= Nyquist
        THEN Fresh(h, IF ~IsFinite(audio) THEN AllNaN(audio)
                      ELSE [i \in 1..Len(audio) |->
                               Div(audio[i] * DbToLinear(gain_db), One)])
        ELSE IF freq <= 0 THEN Raised(h, ButterText)
        ELSE Fresh(h, Blend(audio, SosLow(audio, freq), DbToLinear(gain_db)))

\* The high-pass with the corner handling of the high shelf.
ApplyHighPass_AsHighShelf(h, ref, q) ==
    LET audio == h[ref]
        freq == Get(q, "freq", 80)
    IN  IF freq >= Nyquist THEN Returned(h, ref)
        ELSE IF freq <= 0 THEN Raised(h, ButterText)
        ELSE Fresh(h, SosHigh(audio, freq))

\* Lines 255-269.
ApplyHighPass(h, ref, q) ==
    LET audio == h[ref]
        freq == Get(q, "freq", 80)
    IN  IF freq >= Nyquist THEN Fresh(h, [i \in 1..Len(audio) |-> 0])
        ELSE IF freq <= 0 THEN Returned(h, ref)
        ELSE Fresh(h, SosHigh(audio, freq))

ApplyBellFilter(h, ref, q) == Returned(h, ref)

\* One pass of the loop of apply_eq (lines 53-61).
ApplyEqEntry(h, ref, e) ==
    IF e.name = "high_shelf" THEN ApplyHighShelf(h, ref, e)
    ELSE IF e.name = "low_shelf" THEN ApplyLowShelf(h, ref, e)
    ELSE IF e.name = "high_pass" THEN ApplyHighPass(h, ref, e)
    ELSE IF e.name = "bell" THEN ApplyBellFilter(h, ref, e)
    ELSE Returned(h, ref)

RECURSIVE ApplyEqEntries(_, _, _)
ApplyEqEntries(r, entries, i) ==
    IF i > Len(entries) \/ r.err # "" THEN r
    ELSE ApplyEqEntries(ApplyEqEntry(r.heap, r.ref, entries[i]), entries, i + 1)

ApplyEq(h, ref, eq_params) ==
    IF eq_params.has = {} THEN Returned(h, ref)
    ELSE ApplyEqEntries(Fresh(h, h[ref]), eq_params.eq, 1)

RECURSIVE EnvelopeFrom(_, _, _, _, _)
EnvelopeFrom(audio, attack_samples, release_samples, i, current_level) ==
    IF i > Len(audio) THEN <<>>
    ELSE LET sample == Abs(audio[i])
             coeff == IF sample > current_level
                        THEN SmoothCoeff(Max(1, attack_samples))
                        ELSE SmoothCoeff(Max(1, release_samples))
             level == current_level + Div((sample - current_level) * coeff, 1000)
         IN  <<level>> \o EnvelopeFrom(audio, attack_samples, release_samples,
                                       i + 1, level)

CalculateEnvelope(audio, attack_samples, release_samples) ==
    IF ~IsFinite(audio) THEN AllNaN(audio)
    ELSE EnvelopeFrom(audio, attack_samples, release_samples, 1, 0)

\* The gain turned upside down.
Compressed_Inverted(sample, envelope, threshold_linear, ratio) ==
    IF envelope <= threshold_linear THEN sample
    ELSE Div(sample * (threshold_linear * ratio
                          + (envelope - threshold_linear) * (ratio - 10)),
             threshold_linear * ratio)

\* audio[i] * 1 / (1 + (envelope/threshold - 1) * (ratio - 1) / ratio), as
\* one quotient.
Compressed(sample, envelope, threshold_linear, ratio) ==
    IF envelope <= threshold_linear THEN sample
    ELSE LET num == threshold_linear * ratio
             den == num + (envelope - threshold_linear) * (ratio - 10)
         IN  IF den = 0 THEN NaN
             ELSE IF den > 0 THEN Div(sample * num, den)
             ELSE -Div(sample * num, -den)

ApplyCompression(h, ref, comp_params) ==
    IF comp_params.has = {} THEN Returned(h, ref)
    ELSE LET audio == h[ref]
             threshold == Get(comp_params, "threshold", -120)
             ratio == Get(comp_params, "ratio", 40)
             attack_ms == Get(comp_params, "attack", 10)
             release_ms == Get(comp_params, "release", 100)
             attack_samples == Div(attack_ms * SampleRate, 1000)
             release_samples == Div(release_ms * SampleRate, 1000)
             envelope == CalculateEnvelope(audio, attack_samples, release_samples)
         IN  IF PowOverflows(threshold) THEN Raised(h, OverflowText)
             ELSE IF ~IsFinite(audio) THEN Fresh(h, AllNaN(audio))
             ELSE Fresh(h, [i \in 1..Len(audio) |->
                              Compressed(audio[i], envelope[i],
                                         DbToLinear(threshold), ratio)])

\* 'tape' given the soft curve as well.
ApplySaturation_TapeIsSoft(h, ref, params) ==
    LET audio == h[ref]
        drive == Get(params, "drive", 10)
        sat_type == Get(params, "type", "soft")
    IN  IF drive = NaN \/ ~IsFinite(audio) THEN Fresh(h, AllNaN(audio))
        ELSE IF sat_type \in {"soft", "tape"}
        THEN Fresh(h, [i \in 1..Len(audio) |-> Tanh(Div(audio[i] * (One + drive), One))])
        ELSE Fresh(h, [i \in 1..Len(audio) |->
                         Min(Max(audio[i], -(One - drive)), One - drive)])

\* Lines 276-287.
ApplySaturation(h, ref, params) ==
    LET audio == h[ref]
        drive == Get(params, "drive", 10)
        sat_type == Get(params, "type", "soft")
    IN  IF drive = NaN \/ ~IsFinite(audio) THEN Fresh(h, AllNaN(audio))
        ELSE IF sat_type = "soft"
        THEN Fresh(h, [i \in 1..Len(audio) |-> Tanh(Div(audio[i] * (One + drive), One))])
        ELSE Fresh(h, [i \in 1..Len(audio) |->
                         Min(Max(audio[i], -(One - drive)), One - drive)])

\* _analyze_audio_characteristics (lines 312-319): librosa refuses a buffer
\* that is not finite everywhere.  The value of the centroid is left out.
AnalyzeAudioCharacteristics(audio) ==
    IF ~IsFinite(audio)
      THEN [err |-> "Audio buffer is not finite everywhere", rms |-> NaN,
            peak |-> NaN, dynamic_range |-> NaN]
      ELSE [err |-> "", rms |-> Rms(audio), peak |-> PeakOf(audio),
            dynamic_range |-> MaxOf(audio) - MinOf(audio)]

(***************************************************************************)
(* AudioProcessor: the calls                                               *)
(***************************************************************************)
\* The buffers a caller starts from (finite, not empty).
InputBuffers == {<<50, -100>>, <<0, 30, 90>>, <<0, 0>>}

LowShelfStep ==
    Step("eq", EqParams(<<EqEntry("low_shelf", {"freq", "gain", "q"}, 100, 25, 70)>>))

\* The second entry makes signal.butter raise after the first was applied.
BadEqStep ==
    Step("eq", EqParams(<<EqEntry("high_pass", {"freq", "q"}, 60, 0, 70),
                          EqEntry("high_shelf", {"freq", "gain"}, 0, 20, 0)>>))

EmptyEqStep == Step("eq", NoParams)

CompressionStep == Step("compression", CompParams(-150, 35, 0, 0))

TapeStep == Step("saturation", SatParams(15, "tape"))

NanDriveStep == Step("saturation", SatParams(NaN, "soft"))

ReverbStep == Step("reverb", NoParams)

NoTarget == [brightness |-> 0, warmth |-> 0, punch |-> 0, clarity |-> 0]

StepLists ==
    {<<>>, <<LowShelfStep>>, <<BadEqStep>>, <<EmptyEqStep>>, <<CompressionStep>>,
     <<TapeStep>>, <<NanDriveStep>>, <<ReverbStep>>,
     <<BadEqStep, CompressionStep>>, <<NanDriveStep, TapeStep>>,
     <<ReverbStep, LowShelfStep>>, <<LowShelfStep, CompressionStep>>,
     <<CompressionStep, LowShelfStep>>,
     <<LowShelfStep, BadEqStep, TapeStep>>,
     <<LowShelfStep, CompressionStep, TapeStep>>}

Chains == {Chain("custom", steps, NoTarget, 0) : steps \in StepLists}

EqMappings == {NoParams, LowShelfStep.params, BadEqStep.params}

CompressionMappings == {NoParams, CompressionStep.params}

SaturationMappings == {NoParams, TapeStep.params}

StepKinds == {"eq", "compression", "saturation"}

NoReport ==
    [chain_name |-> "", steps_applied |-> <<>>, before_rms |-> 0,
     after_rms |-> 0, processing_artifacts |-> <<>>]

NoChain == Chain("", <<>>, NoTarget, 0)

\* `last`: the call made last, the input buffer and its content at entry,
\* the buffer returned (0 when the call raised), the report returned and,
\* per step of the chain, whether a primitive applied it ("applied"), it
\* raised ("raised") or no primitive was called for it ("skipped"); for a
\* direct call of a primitive, the mapping it was given; handed holds the
\* content of `processed` at the start of every step and after the last.
NoCall ==
    [op |-> "none", in_ref |-> 0, in_before |-> <<>>, out_ref |-> 0,
     raised |-> FALSE, error |-> "", chain |-> NoChain, report |-> NoReport,
     status |-> <<>>, params |-> NoParams, handed |-> <<>>]

ProcInitWith(audio) ==
    /\ heap = <<audio>>
    /\ processing_history = <<>>
    /\ presets_db = {}
    /\ last = NoCall
    /\ ncalls = 0
    /\ nchain = 0

ProcInit == \E audio \in InputBuffers : ProcInitWith(audio)

\* The dispatch of lines 129-134.
ApplyStep(h, ref, step) ==
    IF step.type = "eq" THEN ApplyEq(h, ref, step.params)
    ELSE IF step.type = "compression" THEN ApplyCompression(h, ref, step.params)
    ELSE IF step.type = "saturation" THEN ApplySaturation(h, ref, step.params)
    ELSE Returned(h, ref)

\* steps_applied after a step returned (line 136).
StepsAppliedAfter(steps_applied, step) == Append(steps_applied, step.type)

\* A step that raised leaves the array it built last as the buffer of the
\* next step.
RunStep_KeepsPartial(acc, step) ==
    LET r == ApplyStep(acc.heap, acc.ref, step)
    IN  IF r.err = ""
          THEN [acc EXCEPT !.heap = r.heap, !.ref = r.ref,
                           !.steps_applied = StepsAppliedAfter(@, step),
                           !.status = Append(@, IF step.type \in StepKinds
                                                  THEN "applied" ELSE "skipped"),
                           !.handed = Append(@, acc.heap[acc.ref])]
          ELSE [acc EXCEPT !.heap = r.heap, !.ref = Len(r.heap),
                           !.processing_artifacts =
                               Append(@, "Error in " \o step.type \o ": " \o r.err),
                           !.status = Append(@, "raised"),
                           !.handed = Append(@, acc.heap[acc.ref])]

\* One pass of the loop of lines 124-139; handed keeps the content of
\* `processed` the step was entered with.
RunStep(acc, step) ==
    LET r == ApplyStep(acc.heap, acc.ref, step)
    IN  IF r.err = ""
          THEN [acc EXCEPT !.heap = r.heap, !.ref = r.ref,
                           !.steps_applied = StepsAppliedAfter(@, step),
                           !.status = Append(@, IF step.type \in StepKinds
                                                  THEN "applied" ELSE "skipped"),
                           !.handed = Append(@, acc.heap[acc.ref])]
          ELSE [acc EXCEPT !.heap = r.heap,
                           !.processing_artifacts =
                               Append(@, "Error in " \o step.type \o ": " \o r.err),
                           !.status = Append(@, "raised"),
                           !.handed = Append(@, acc.heap[acc.ref])]

RECURSIVE RunSteps(_, _, _)
RunSteps(acc, steps, i) ==
    IF i > Len(steps) THEN acc ELSE RunSteps(RunStep(acc, steps[i]), steps, i + 1)

\* The buffers alive after a call: those alive before it and the one it
\* returned.
HeapAfter(h, ref) ==
    IF ref > Len(heap) THEN Append(SubSeq(h, 1, Len(heap)), h[ref])
    ELSE SubSeq(h, 1, Len(heap))

RefAfter(ref) == IF ref > Len(heap) THEN Len(heap) + 1 ELSE ref

\* after_rms left at the 0.0 the report is created with.
AfterRms_LeftAtZero(processed) == 0

\* report['after_rms'] (line 141).
AfterRms(processed) == Rms(processed)

ApplyProcessingChain(ref, chain) ==
    LET audio == heap[ref]
        copied == Fresh(heap, audio)
        run == RunSteps([heap |-> copied.heap, ref |-> copied.ref,
                         steps_applied |-> <<>>, processing_artifacts |-> <<>>,
                         status |-> <<>>, handed |-> <<>>], chain.steps, 1)
        processed == run.heap[run.ref]
        report == [chain_name |-> chain.name,
                   steps_applied |-> run.steps_applied,
                   before_rms |-> Rms(audio),
                   after_rms |-> AfterRms(processed),
                   processing_artifacts |-> run.processing_artifacts]
        input_characteristics == AnalyzeAudioCharacteristics(run.heap[ref])
        output_characteristics == AnalyzeAudioCharacteristics(processed)
        error == IF input_characteristics.err # "" THEN input_characteristics.err
                 ELSE output_characteristics.err
    IN  /\ ncalls < MaxCalls
        /\ ncalls' = ncalls + 1
        /\ nchain' = nchain + 1
        /\ IF error = ""
             THEN /\ processing_history' =
                        Append(processing_history,
                               [chain |-> chain,
                                input_characteristics |-> input_characteristics,
                                output_characteristics |-> output_characteristics,
                                report |-> report])
                  /\ heap' = HeapAfter(run.heap, run.ref)
                  /\ last' = [op |-> "apply_processing_chain", in_ref |-> ref,
                              in_before |-> audio, out_ref |-> RefAfter(run.ref),
                              raised |-> FALSE, error |-> "", chain |-> chain,
                              report |-> report, status |-> run.status,
                              params |-> NoParams,
                              handed |-> Append(run.handed, processed)]
             ELSE /\ processing_history' = processing_history
                  /\ heap' = HeapAfter(run.heap, 0)
                  /\ last' = [op |-> "apply_processing_chain", in_ref |-> ref,
                              in_before |-> audio, out_ref |-> 0,
                              raised |-> TRUE, error |-> error, chain |-> chain,
                              report |-> NoReport, status |-> run.status,
                              params |-> NoParams,
                              handed |-> Append(run.handed, processed)]
        /\ UNCHANGED <<presets_db, predVars, decVars, extVars, assessVars>>

\* A direct call of a primitive on a live buffer.
PrimitiveCall(op, ref, params, r) ==
    /\ ncalls < MaxCalls
    /\ ncalls' = ncalls + 1
    /\ heap' = HeapAfter(r.heap, r.ref)
    /\ last' = [op |-> op, in_ref |-> ref, in_before |-> heap[ref],
                out_ref |-> IF r.err = "" THEN RefAfter(r.ref) ELSE 0,
                raised |-> r.err # "", error |-> r.err, chain |-> NoChain,
                report |-> NoReport, status |-> <<>>, params |-> params,
                handed |-> <<>>]
    /\ UNCHANGED <<processing_history, presets_db, nchain, predVars, decVars,
                   extVars, assessVars>>

\* A caller applies a chain to one of the live buffers.
CallApplyProcessingChain ==
    \E ref \in 1..Len(heap), chain \in Chains : ApplyProcessingChain(ref, chain)

CallApplyEq ==
    \E ref \in 1..Len(heap), eq_params \in EqMappings :
        PrimitiveCall("apply_eq", ref, eq_params, ApplyEq(heap, ref, eq_params))

CallApplyCompression ==
    \E ref \in 1..Len(heap), comp_params \in CompressionMappings :
        PrimitiveCall("apply_compression", ref, comp_params,
                      ApplyCompression(heap, ref, comp_params))

CallApplySaturation ==
    \E ref \in 1..Len(heap), params \in SaturationMappings :
        PrimitiveCall("_apply_saturation", ref, params,
                      ApplySaturation(heap, ref, params))

ProcNext ==
    \/ CallApplyProcessingChain
    \/ CallApplyEq
    \/ CallApplyCompression
    \/ CallApplySaturation

(***************************************************************************)
(* Decision engine: AudioProcessor.generate_adaptive_chain and             *)
(* MixAnalyzer.suggest_processing_chain.  frequency_balance is a function  *)
(* from band names to energies, dynamic_range and rms_energy are in        *)
(* hundredths; a ratio a/b is compared with a threshold c/100 as           *)
(* 100*a against c*b (b > 0).                                              *)
(***************************************************************************)
Balance(bass, mids, highs) == ("bass" :> bass) @@ ("mids" :> mids) @@ ("highs" :> highs)

\* A mapping without the keys the rules read, and the empty mapping.
OtherBalances == {("mids" :> 50), <<>>}

BassGrid == {0, 5, 14, 15, 35, 36, 60}

MidsGrid == {0, 50, 75}

HighsGrid == {0, 4, 5, 7, 8, 20}

DynamicRangeGrid == {10, 19, 20, 50, 70, 71, 80, 81, 90}

RmsGrid == {0, 5, 20}

Styles == {"balanced", "bright", "warm", "vintage", "dark"}

FeatureRecords ==
    [frequency_balance :
         {Balance(b, m, h) : b \in BassGrid, m \in MidsGrid, h \in HighsGrid}
             \cup OtherBalances,
     dynamic_range : DynamicRangeGrid,
     rms_energy : RmsGrid]

RECURSIVE SumValues(_, _)
SumValues(balance, keys) ==
    IF keys = {} THEN 0
    ELSE LET k == CHOOSE x \in keys : TRUE
         IN  balance[k] + SumValues(balance, keys \ {k})

\* sum(balance.values()) if balance else 1
TotalEnergy(balance) ==
    IF DOMAIN balance = {} THEN One ELSE SumValues(balance, DOMAIN balance)

\* balance.get(band, 0)
Band(balance, band) == IF band \in DOMAIN balance THEN balance[band] ELSE 0

\* The two tests on bass_ratio written as independent ifs, the second one
\* turned round.
AdaptiveBassEq_TwoIfs(balance, total_energy) ==
    (IF 100 * Band(balance, "bass") < 15 * total_energy
       THEN <<EqEntry("low_shelf", {"freq", "gain", "q"}, 100, 25, 70)>> ELSE <<>>)
    \o (IF 100 * Band(balance, "bass") < 35 * total_energy
          THEN <<EqEntry("high_pass", {"freq", "q"}, 60, 0, 70)>> ELSE <<>>)

\* generate_adaptive_chain, lines 172-176.
AdaptiveBassEq(balance, total_energy) ==
    IF 100 * Band(balance, "bass") < 15 * total_energy
      THEN <<EqEntry("low_shelf", {"freq", "gain", "q"}, 100, 25, 70)>>
    ELSE IF 100 * Band(balance, "bass") > 35 * total_energy
      THEN <<EqEntry("high_pass", {"freq", "q"}, 60, 0, 70)>>
    ELSE <<>>

\* The shelf added for every style.
AdaptiveHighsEq_AnyStyle(balance, total_energy, target_style) ==
    IF 100 * Band(balance, "highs") < 8 * total_energy
      THEN <<EqEntry("high_shelf", {"freq", "gain", "q"}, 10000, 18, 70)>>
      ELSE <<>>

\* Lines 179-181.
AdaptiveHighsEq(balance, total_energy, target_style) ==
    IF 100 * Band(balance, "highs") < 8 * total_energy
       /\ target_style \in {"bright", "balanced"}
      THEN <<EqEntry("high_shelf", {"freq", "gain", "q"}, 10000, 18, 70)>>
      ELSE <<>>

NeedsCompression_Above90(dynamic_range) == dynamic_range > 90

\* Line 187.
NeedsCompression(dynamic_range) == dynamic_range > 70

NeedsSaturation_WarmOnly(target_style) == target_style = "warm"

\* Line 197.
NeedsSaturation(target_style) == target_style \in {"warm", "vintage"}

\* 0.3 counted for each step.
EstimatedImprovement_ThreeTenths(steps) == Min(80, Len(steps) * 30)

\* The estimate raised by every chain applied so far.
EstimatedImprovement_FromHistory(steps) ==
    Min(80, (Len(steps) + Len(processing_history)) * 20)

\* Line 201: min(0.8, len(steps) * 0.2).
EstimatedImprovement(steps) == Min(80, Len(steps) * 20)

\* Every EQ adjustment appended as an eq step of its own.
GenerateAdaptiveChain_StepPerAdjustment(features, target_style) ==
    LET balance == features.frequency_balance
        total_energy == TotalEnergy(balance)
        eq_needed == IF total_energy > 0
                       THEN AdaptiveBassEq(balance, total_energy)
                            \o AdaptiveHighsEq(balance, total_energy, target_style)
                       ELSE <<>>
        steps == [i \in 1..Len(eq_needed) |-> Step("eq", EqParams(<<eq_needed[i]>>))]
                 \o (IF NeedsCompression(features.dynamic_range)
                       THEN <<Step("compression", CompParams(-150, 35, 15, 120))>>
                       ELSE <<>>)
                 \o (IF NeedsSaturation(target_style)
                       THEN <<Step("saturation", SatParams(15, "tape"))>> ELSE <<>>)
    IN  Chain("adaptive_" \o target_style, steps,
              [brightness |-> IF target_style = "bright" THEN 70 ELSE 50,
               warmth |-> IF target_style = "warm" THEN 80 ELSE 40,
               punch |-> 60, clarity |-> 80],
              EstimatedImprovement(steps))

\* Lines 153-213.
GenerateAdaptiveChain(features, target_style) ==
    LET balance == features.frequency_balance
        total_energy == TotalEnergy(balance)
        eq_needed == IF total_energy > 0
                       THEN AdaptiveBassEq(balance, total_energy)
                            \o AdaptiveHighsEq(balance, total_energy, target_style)
                       ELSE <<>>
        steps == (IF eq_needed # <<>> THEN <<Step("eq", EqParams(eq_needed))>> ELSE <<>>)
                 \o (IF NeedsCompression(features.dynamic_range)
                       THEN <<Step("compression", CompParams(-150, 35, 15, 120))>>
                       ELSE <<>>)
                 \o (IF NeedsSaturation(target_style)
                       THEN <<Step("saturation", SatParams(15, "tape"))>> ELSE <<>>)
    IN  Chain("adaptive_" \o target_style, steps,
              [brightness |-> IF target_style = "bright" THEN 70 ELSE 50,
               warmth |-> IF target_style = "warm" THEN 80 ELSE 40,
               punch |-> 60, clarity |-> 80],
              EstimatedImprovement(steps))

\* suggest_processing_chain, lines 391-395.
SuggestedBassEq(balance, total_energy) ==
    IF 100 * Band(balance, "bass") < 15 * total_energy
      THEN <<EqEntry("low_shelf", {"freq", "gain", "q"}, 100, 30, 70)>>
    ELSE IF 100 * Band(balance, "bass") > 35 * total_energy
      THEN <<EqEntry("high_pass", {"freq", "q"}, 40, 0, 70)>>
    ELSE <<>>

SuggestProcessingChain(features) ==
    LET balance == features.frequency_balance
        total_energy == TotalEnergy(balance)
    IN  [eq |-> IF total_energy > 0
                  THEN SuggestedBassEq(balance, total_energy)
                       \o (IF 100 * Band(balance, "highs") < 5 * total_energy
                             THEN <<EqEntry("high_shelf", {"freq", "gain", "q"},
                                            8000, 20, 70)>>
                             ELSE <<>>)
                  ELSE <<>>,
         compression |-> IF features.dynamic_range > 80
                           THEN CompParams(-120, 30, 10, 100) ELSE NoParams,
         effects |-> IF features.dynamic_range < 20
                       THEN <<"gentle_expansion">> ELSE <<>>,
         overall_confidence |-> Min(One, features.rms_energy * 10)]

NoSuggestions ==
    [eq |-> <<>>, compression |-> NoParams, effects |-> <<>>, overall_confidence |-> 0]

\* `decision`: the decision call made last on audio_features and its result;
\* `first_decision`: the first generate_adaptive_chain call and its result.
NoDecision ==
    [op |-> "none", target_style |-> "", chain |-> NoChain,
     suggestions |-> NoSuggestions]

DecInitWith(features) ==
    /\ audio_features = features
    /\ decision = NoDecision
    /\ first_decision = NoDecision

DecInit == \E features \in FeatureRecords : DecInitWith(features)

CallGenerateAdaptiveChain(target_style) ==
    /\ decision' = [op |-> "generate_adaptive_chain", target_style |-> target_style,
                    chain |-> GenerateAdaptiveChain(audio_features, target_style),
                    suggestions |-> NoSuggestions]
    /\ first_decision' = IF first_decision.op = "none" THEN decision'
                          ELSE first_decision
    /\ UNCHANGED <<audio_features, predVars, procVars, extVars, assessVars>>

CallSuggestProcessingChain ==
    /\ decision' = [op |-> "suggest_processing_chain", target_style |-> "",
                    chain |-> NoChain,
                    suggestions |-> SuggestProcessingChain(audio_features)]
    /\ UNCHANGED <<audio_features, first_decision, predVars, procVars, extVars,
                   assessVars>>

DecNext ==
    \/ \E target_style \in Styles : CallGenerateAdaptiveChain(target_style)
    \/ CallSuggestProcessingChain

(***************************************************************************)
(* MixAnalyzer.extract_features and SimpleAnalyzer.analyze_basic_stats.    *)
(*                                                                         *)
(* A buffer is described by what the numeric kernels read from it: its     *)
(* kind (None, a numpy array, a plain list), len(audio), its dtype, the    *)
(* levels, the mean magnitude the transform finds in each band that has a *)
(* bin, its strongest positive frequency and, for a 2-channel array, the   *)
(* samples of the two channels.  Band magnitudes are chosen so that the    *)
(* ratios are whole hundredths.                                            *)
(***************************************************************************)
\* self.frequency_bands (lines 51-57), in insertion order.
BandNames == <<"bass", "low_mids", "mids", "high_mids", "highs">>

Bands(bass, low_mids, mids, high_mids, highs) ==
    ("bass" :> bass) @@ ("low_mids" :> low_mids) @@ ("mids" :> mids)
        @@ ("high_mids" :> high_mids) @@ ("highs" :> highs)

\* np.any(band_mask) is false for every band: the transform has no positive
\* frequency bin.
NoBins == <<>>

\* What np.sqrt(np.mean(audio**2)), np.max(np.abs(audio)) and
\* np.max(audio) - np.min(audio) give (hundredths).
Levels(rms, peak, range) == [rms |-> rms, peak |-> peak, range |-> range]

\* What the transforms give: mean magnitude per band, strongest positive
\* frequency, spectral centroid and rolloff (Hz).
Spectrum(magnitude, peak_frequency, centroid, rolloff) ==
    [magnitude |-> magnitude, peak_frequency |-> peak_frequency,
     centroid |-> centroid, rolloff |-> rolloff]

Mono(dtype, length, levels, spectrum) ==
    [kind |-> "ndarray", ndim |-> 1, dtype |-> dtype, len |-> length,
     rms |-> levels.rms, peak |-> levels.peak, range |-> levels.range,
     magnitude |-> spectrum.magnitude, peak_frequency |-> spectrum.peak_frequency,
     centroid |-> spectrum.centroid, rolloff |-> spectrum.rolloff,
     left |-> <<>>, right |-> <<>>]

\* A (2, n) array: len(audio) is 2, and the transform of its two rows has no
\* positive bin.
Stereo(left, right) ==
    [Mono("float", 2,
          Levels(Rms(left \o right), PeakOf(left \o right),
                 MaxOf(left \o right) - MinOf(left \o right)),
          Spectrum(NoBins, 0, 0, 0))
       EXCEPT !.ndim = 2, !.left = left, !.right = right]

Tone == Spectrum(Bands(20, 30, 30, 15, 5), 440, 900, 2000)

Silence == Spectrum(Bands(0, 0, 0, 0, 0), 5, 0, 0)

NoneBuffer ==
    [Mono("float", 0, Levels(0, 0, 0), Spectrum(NoBins, 0, 0, 0)) EXCEPT !.kind = "None"]

ListBuffer ==
    [Mono("float", 2, Levels(45, 50, 90), Spectrum(NoBins, 0, 0, 0)) EXCEPT !.kind = "list"]

MonoBuffers ==
    {Mono("float", 0, Levels(0, 0, 0), Spectrum(NoBins, 0, 0, 0)),
     Mono("float", 2, Levels(45, 50, 90), Spectrum(NoBins, 0, 0, 0)),
     Mono("float", 1024, Levels(21, 30, 60),
          Spectrum(Bands(50, 0, 150, 0, 0), 440, 900, 2000)),
     Mono("float", 1024, Levels(0, 0, 0), Silence),
     Mono("float", 2048, Levels(21, 30, 60), Tone),
     Mono("float", 2048, Levels(0, 0, 0), Silence),
     Mono("int16", 2048, Levels(21, 30, 60), Tone)}

StereoBuffers ==
    {Stereo(<<50, -50>>, <<50, -50>>),
     Stereo(<<50, -50>>, <<-25, 25>>),
     Stereo(<<50, 0, -50>>, <<0, 50, 0>>),
     Stereo(<<50, -50, 0, 0>>, <<50, -50, 50, -50>>),
     Stereo(<<50, -50>>, <<0, 0>>),
     Stereo(<<0, 0>>, <<0, 0>>)}

Buffers == {NoneBuffer, ListBuffer} \cup MonoBuffers \cup StereoBuffers

RECURSIVE SumOf(_, _)
SumOf(x, i) == IF i > Len(x) THEN 0 ELSE x[i] + SumOf(x, i + 1)

RECURSIVE SumProd(_, _, _)
SumProd(x, y, i) == IF i > Len(x) THEN 0 ELSE x[i] * y[i] + SumProd(x, y, i + 1)

\* np.corrcoef(left, right)[0, 1] in hundredths: NaN when a channel has no
\* variance.
Corrcoef(left, right) ==
    LET n == Len(left)
        cov == n * SumProd(left, right, 1) - SumOf(left, 1) * SumOf(right, 1)
        var_l == n * SumProd(left, left, 1) - SumOf(left, 1) * SumOf(left, 1)
        var_r == n * SumProd(right, right, 1) - SumOf(right, 1) * SumOf(right, 1)
    IN  IF var_l = 0 \/ var_r = 0 THEN NaN
        ELSE Min(One, Max(-One, Div(One * cov, Sqrt(var_l) * Sqrt(var_r))))

\* The _calculate_stereo_width the class ends up with (lines 418-431; the
\* definition of lines 325-350 is replaced by it).
CalculateStereoWidth(audio) ==
    IF audio.ndim < 2 THEN 0
    ELSE LET correlation == Corrcoef(audio.left, audio.right)
         IN  IF correlation = NaN THEN NaN ELSE One - Abs(correlation)

\* The loop over self.frequency_bands and the normalisation (lines 164-179
\* and 201-217).
BandEnergy(magnitude, band) == IF band \in DOMAIN magnitude THEN magnitude[band] ELSE 0

TotalBandEnergy(magnitude) ==
    SumOf([i \in 1..Len(BandNames) |-> BandEnergy(magnitude, BandNames[i])], 1)

\* The ratio taken over the largest band instead of the sum.
Normalized_ByLargestBand(energy, total_energy) ==
    [b \in DOMAIN energy |-> Div(One * energy[b], MaxOf([i \in 1..Len(BandNames) |-> energy[BandNames[i]]]))]

\* frequency_balance[band] /= total_energy
Normalized(energy, total_energy) ==
    [b \in DOMAIN energy |-> Div(One * energy[b], total_energy)]

BandRatios(magnitude) ==
    LET energy == [b \in {BandNames[i] : i \in 1..Len(BandNames)} |->
                       BandEnergy(magnitude, b)]
        total_energy == TotalBandEnergy(magnitude)
    IN  IF total_energy > 0 THEN Normalized(energy, total_energy) ELSE energy

\* The dict returned by the except clauses of lines 184-186 and 220-222.
FallbackBalance == Bands(30, 20, 30, 15, 5)

\* _basic_frequency_analysis (lines 188-222).
BasicFrequencyAnalysis(audio) == BandRatios(audio.magnitude)

\* _analyze_frequency_balance (lines 154-186): librosa.stft refuses an array
\* that is not floating point.
AnalyzeFrequencyBalance(audio, has_librosa) ==
    IF has_librosa /\ audio.len > 1024
      THEN IF audio.dtype # "float" THEN FallbackBalance
           ELSE BandRatios(audio.magnitude)
      ELSE BasicFrequencyAnalysis(audio)

\* _find_peak_frequency (lines 224-243).
FindPeakFrequency(audio) ==
    IF audio.magnitude = NoBins THEN 440 ELSE audio.peak_frequency

\* The record of the outer except clause (lines 144-152).
SafeDefaults ==
    [spectral_centroid |-> 1000, spectral_rolloff |-> 8000, rms_energy |-> 10,
     dynamic_range |-> 50,
     frequency_balance |-> ("bass" :> 30) @@ ("mids" :> 40) @@ ("highs" :> 30),
     stereo_width |-> 50, peak_frequency |-> 440]

InvalidAudio_NoneOnly(audio) == audio.kind = "None"

\* Line 90: audio is None or len(audio) == 0.
InvalidAudio(audio) == audio.kind = "None" \/ audio.len = 0

\* extract_features (lines 80-152): what it returns, or the error it raises.
ExtractFeatures(audio, has_librosa) ==
    IF InvalidAudio(audio)
      THEN [raised |-> TRUE, error |-> "ValueError: Invalid audio data provided",
            features |-> SafeDefaults]
    ELSE IF audio.kind # "ndarray"
      THEN [raised |-> FALSE, error |-> "", features |-> SafeDefaults]
    ELSE LET spectral_ok == has_librosa /\ audio.len > 1024 /\ audio.dtype = "float"
         IN  [raised |-> FALSE, error |-> "",
              features |->
                  [spectral_centroid |-> IF spectral_ok THEN audio.centroid ELSE 1000,
                   spectral_rolloff |-> IF spectral_ok THEN audio.rolloff ELSE 8000,
                   rms_energy |-> audio.rms,
                   dynamic_range |-> audio.range,
                   frequency_balance |-> AnalyzeFrequencyBalance(audio, has_librosa),
                   stereo_width |-> IF audio.ndim > 1 /\ audio.len > 1
                                      THEN CalculateStereoWidth(audio) ELSE 0,
                   peak_frequency |-> FindPeakFrequency(audio)]]

NoStats ==
    [duration_ms |-> 0, rms_level |-> 0, peak_level |-> 0, dynamic_range |-> 0,
     dominant_frequency_hz |-> 0, bass_ratio |-> 0, mid_ratio |-> 0,
     high_ratio |-> 0, sample_rate |-> 0, total_samples |-> 0]

\* The three sums of lines 98-100, each band of the description holding one
\* bin.
SimpleBandSums(audio) ==
    [bass |-> BandEnergy(audio.magnitude, "bass"),
     mid |-> BandEnergy(audio.magnitude, "low_mids") + BandEnergy(audio.magnitude, "mids")
                 + BandEnergy(audio.magnitude, "high_mids"),
     high |-> BandEnergy(audio.magnitude, "highs")]

\* SimpleAnalyzer.analyze_basic_stats (lines 66-127) on a 1-d buffer.
AnalyzeBasicStats(audio, sample_rate) ==
    IF audio.kind # "ndarray" \/ audio.len = 0
      THEN [raised |-> TRUE, error |-> "RuntimeError: Analysis failed", stats |-> NoStats]
    ELSE LET band == SimpleBandSums(audio)
             total_energy == band.bass + band.mid + band.high
         IN  [raised |-> FALSE, error |-> "",
              stats |->
                  [duration_ms |-> (audio.len * 1000) \div sample_rate,
                   rms_level |-> audio.rms,
                   peak_level |-> audio.peak,
                   dynamic_range |-> IF audio.rms = 0 THEN 0
                                     ELSE Div(One * audio.peak, audio.rms),
                   dominant_frequency_hz |-> audio.peak_frequency,
                   bass_ratio |-> IF total_energy > 0
                                    THEN Div(One * band.bass, total_energy) ELSE 0,
                   mid_ratio |-> IF total_energy > 0
                                   THEN Div(One * band.mid, total_energy) ELSE 0,
                   high_ratio |-> IF total_energy > 0
                                    THEN Div(One * band.high, total_energy) ELSE 0,
                   sample_rate |-> sample_rate,
                   total_samples |-> audio.len]]

\* ideal_ratios (line 369) and the default of ideal_ratios.get.
IdealRatios == Bands(25, 20, 30, 15, 10)

IdealRatio(band_name) ==
    IF band_name \in DOMAIN IdealRatios THEN IdealRatios[band_name] ELSE 20

\* The analyze_mix_balance the class ends up with (lines 352-376; the
\* definition of lines 245-273 is replaced by it): what it returns, or the
\* error extract_features raised.
AnalyzeMixBalance(audio, has_librosa) ==
    LET r == ExtractFeatures(audio, has_librosa)
        balance == r.features.frequency_balance
        names == DOMAIN balance
        total_energy == SumValues(balance, names)
    IN  IF r.raised THEN [raised |-> TRUE, error |-> r.error, scores |-> <<>>]
        ELSE IF total_energy = 0
          THEN [raised |-> FALSE, error |-> "",
                scores |-> [b \in {BandNames[i] : i \in 1..Len(BandNames)} |-> 0]]
        ELSE [raised |-> FALSE, error |-> "",
              scores |-> [b \in names |->
                  LET actual_ratio == Div(One * balance[b], total_energy)
                      ideal_ratio == IdealRatio(b)
                  IN  One - Div(One * Abs(actual_ratio - ideal_ratio), ideal_ratio)]]

\* `analysis`: the analysis call made last, its buffer and its outcome.
NoAnalysis ==
    [op |-> "none", audio |-> NoneBuffer, raised |-> FALSE, error |-> "",
     features |-> SafeDefaults, stats |-> NoStats, scores |-> <<>>]

\* MixAnalyzer() and SimpleAnalyzer() after construction.
ExtInitWith(librosa_present) ==
    /\ HAS_LIBROSA = librosa_present
    /\ analysis_cache = {}
    /\ last_analysis = "None"
    /\ analysis = NoAnalysis

ExtInit == \E librosa_present \in BOOLEAN : ExtInitWith(librosa_present)

CallExtractFeatures ==
    \E audio \in Buffers :
        LET r == ExtractFeatures(audio, HAS_LIBROSA)
        IN  /\ analysis' = [op |-> "extract_features", audio |-> audio,
                            raised |-> r.raised, error |-> r.error,
                            features |-> r.features, stats |-> NoStats,
                            scores |-> <<>>]
            /\ UNCHANGED <<HAS_LIBROSA, analysis_cache, last_analysis,
                           predVars, procVars, decVars, assessVars>>

CallAnalyzeBasicStats ==
    \E audio \in {NoneBuffer, ListBuffer} \cup MonoBuffers :
        LET r == AnalyzeBasicStats(audio, SampleRate)
        IN  /\ analysis' = [op |-> "analyze_basic_stats", audio |-> audio,
                            raised |-> r.raised, error |-> r.error,
                            features |-> SafeDefaults, stats |-> r.stats,
                            scores |-> <<>>]
            /\ last_analysis' = IF r.raised THEN last_analysis ELSE r.stats
            /\ UNCHANGED <<HAS_LIBROSA, analysis_cache, predVars, procVars, decVars,
                           assessVars>>

CallAnalyzeMixBalance ==
    \E audio \in Buffers :
        LET r == AnalyzeMixBalance(audio, HAS_LIBROSA)
        IN  /\ analysis' = [op |-> "analyze_mix_balance", audio |-> audio,
                            raised |-> r.raised, error |-> r.error,
                            features |-> SafeDefaults, stats |-> NoStats,
                            scores |-> r.scores]
            /\ UNCHANGED <<HAS_LIBROSA, analysis_cache, last_analysis,
                           predVars, procVars, decVars, assessVars>>

ExtNext == CallExtractFeatures \/ CallAnalyzeBasicStats \/ CallAnalyzeMixBalance

(***************************************************************************)
(* MixPredictor: what one whole call of predict_mix_quality returns to a   *)
(* synchronous caller                                                      *)
(*                                                                         *)
(* A feature mapping is a record with the set `has` of its keys; energies, *)
(* dynamic range, stereo width and rms are in hundredths.  The regressor's *)
(* raw prediction and predicted_rating (0-10 scale) are in thousandths of  *)
(* a rating point, overall_quality and confidence in thousandths.          *)
(***************************************************************************)
Features(has, bass, mid, high, dynamic_range, stereo_width, rms) ==
    [has |-> has, bass_energy |-> bass, mid_energy |-> mid, high_energy |-> high,
     dynamic_range |-> dynamic_range, stereo_width |-> stereo_width,
     rms_energy |-> rms]

NamesOf(names) == {names[i] : i \in 1..Len(names)}

\* np.clip(x, lo, hi)
Clip(x, lo, hi) == Min(Max(x, lo), hi)

\* The classes with their lower boundaries left out.
CategorizeQuality_Exclusive(quality_score) ==
    IF quality_score > 800 THEN "professional"
    ELSE IF quality_score > 600 THEN "good"
    ELSE IF quality_score > 400 THEN "needs_work"
    ELSE "requires_major_improvement"

\* Lines 321-330.
CategorizeQuality(quality_score) ==
    IF quality_score >= 800 THEN "professional"
    ELSE IF quality_score >= 600 THEN "good"
    ELSE IF quality_score >= 400 THEN "needs_work"
    ELSE "requires_major_improvement"

QualityCategories ==
    {"professional", "good", "needs_work", "requires_major_improvement"}

\* The second test of each pair written as an if of its own, the level pair
\* tested against one threshold.
AnalyzeImprovementAreas_TwoIfs(features) ==
    LET rms_energy == Get(features, "rms_energy", 0)
    IN  (IF rms_energy < 10 THEN <<"too_quiet">> ELSE <<>>)
          \o (IF rms_energy < 80 THEN <<"too_loud">> ELSE <<>>)

\* Lines 274-313: the list `issues` in the order of its appends.
AnalyzeImprovementAreas(features) ==
    LET bass_energy == Get(features, "bass_energy", 0)
        high_energy == Get(features, "high_energy", 0)
        total_energy == Get(features, "bass_energy", 0)
                          + Get(features, "mid_energy", 0)
                          + Get(features, "high_energy", 0)
        dynamic_range == Get(features, "dynamic_range", 0)
        stereo_width == Get(features, "stereo_width", 50)
        rms_energy == Get(features, "rms_energy", 0)
        balance == IF total_energy > 0
                     THEN (IF 100 * bass_energy < 10 * total_energy
                             THEN <<"insufficient_low_end">>
                           ELSE IF 100 * bass_energy > 45 * total_energy
                             THEN <<"excessive_bass">>
                           ELSE <<>>)
                            \o (IF 100 * high_energy < 5 * total_energy
                                  THEN <<"lacks_brightness">> ELSE <<>>)
                     ELSE <<>>
        dynamics == IF dynamic_range < 10 THEN <<"over_compressed">>
                    ELSE IF dynamic_range > 90 THEN <<"needs_compression">>
                    ELSE <<>>
        stereo == IF stereo_width < 20 THEN <<"too_narrow">>
                  ELSE IF stereo_width > 90 THEN <<"too_wide">>
                  ELSE <<>>
        level == IF rms_energy < 10 THEN <<"too_quiet">>
                 ELSE IF rms_energy > 80 THEN <<"too_loud">>
                 ELSE <<>>
    IN  balance \o dynamics \o stereo \o level

\* Line 319.
CalculatePredictionConfidence == 850

\* `assessment`: the call made last, the mapping it was given, and what it
\* raised or returned; defaulted holds the trained names the mapping lacks
\* (filled with 0.0 by line 112), raw what the regressor predicted and
\* names_run where the feature names in force came from.
NoAssessment ==
    [op |-> "none", mapping |-> Features({}, 0, 0, 0, 0, 0, 0), raised |-> FALSE,
     error |-> "", names |-> <<>>, defaulted |-> {}, raw |-> 0,
     names_run |-> NoRun,
     overall_quality |-> 0, confidence |-> 0, improvement_areas |-> <<>>,
     predicted_rating |-> 0, quality_category |-> ""]

AssessmentRaised(op, mapping, text) ==
    [NoAssessment EXCEPT !.op = op, !.mapping = mapping, !.raised = TRUE,
                      !.error = text]

\* Line 117: np.clip(quality_score / 10.0, 0.0, 1.0).
QualityScore(prediction) == Clip(Div(prediction, 10), 0, 1000)

\* Lines 98-131 on the predictor fields given; prediction is what
\* self.quality_model.predict returns for the vector.
PredictMixQuality(trained, names, the_scaler, the_model, features, prediction) ==
    LET op == "predict_mix_quality"
        quality_score == QualityScore(prediction)
    IN  IF ~trained THEN AssessmentRaised(op, features, NotTrainedError)
        ELSE IF ~the_scaler.fitted
          THEN AssessmentRaised(op, features, "NotFittedError")
        ELSE IF Len(names) # Len(FeatureColumns)
          THEN AssessmentRaised(op, features, "ValueError")
        ELSE IF the_model.kind = "None"
          THEN AssessmentRaised(op, features, "AttributeError")
        ELSE IF ~the_model.fitted
          THEN AssessmentRaised(op, features, "NotFittedError")
        ELSE [NoAssessment EXCEPT
                !.op = op, !.mapping = features, !.names = names,
                !.defaulted = NamesOf(names) \ features.has,
                !.raw = prediction,
                !.overall_quality = quality_score,
                !.confidence = CalculatePredictionConfidence,
                !.improvement_areas = AnalyzeImprovementAreas(features),
                !.predicted_rating = quality_score * 10,
                !.quality_category = CategorizeQuality(quality_score)]

\* Thousandths of a rating point.
RawPredictions == {-500, 3999, 4000, 5999, 6000, 7999, 8000, 12000}

AllNames == NamesOf(FeatureColumns)

PredictMappings ==
    {Features(AllNames, 20, 60, 20, 50, 50, 30),
     Features(AllNames \cup {"tempo"}, 5, 90, 5, 95, 10, 90),
     Features({"bass_energy", "rms_energy"}, 50, 0, 0, 0, 0, 5)}

AssessRest == assessment = NoAssessment

\* One caller, one call at a time; predict_mix_quality assigns no field.
CallPredictMixQuality ==
    /\ \A t \in Threads : pc[t] = "idle"
    /\ nops < MaxOps
    /\ nops' = nops + 1
    /\ npred' = npred + 1
    /\ \E features \in PredictMappings : \E prediction \in RawPredictions :
           assessment' = [PredictMixQuality(is_trained, feature_names, scaler,
                                         quality_model, features, prediction)
                         EXCEPT !.names_run = names_run]
    /\ UNCHANGED <<model_type, quality_model, scaler, feature_names, is_trained,
                   pc, loc, outcome, names_run, nruns, fit_done, prepared, raw,
                   completed, procVars, decVars, extVars>>

\* The calls that change the predictor, made by one caller.
Caller == CHOOSE t \in Threads : TRUE

Lifecycle ==
    \/ PrepareFit(Caller)
    \/ PrepareNames(Caller)
    \/ TrainNew(Caller)
    \/ TrainSplit(Caller)
    \/ TrainFit(Caller)
    \/ TrainFlag(Caller)
    \/ TrainMetrics(Caller)
    \/ LoadQualityModel(Caller)
    \/ LoadScaler(Caller)
    \/ LoadNames(Caller)
    \/ LoadType(Caller)
    \/ LoadFlag(Caller)

AssessmentNext == Lifecycle \/ CallPredictMixQuality

\* _analyze_improvement_areas as a function of the mapping.
ShareGrid ==
    {<<0, 0, 0>>, <<9, 90, 1>>, <<10, 90, 0>>, <<45, 50, 5>>, <<46, 50, 4>>,
     <<46, 54, 0>>, <<30, 0, 0>>, <<0, 40, 10>>, <<20, 60, 20>>}

AreaMappings ==
    {Features(has, e[1], e[2], e[3], dynamic_range, stereo_width, rms) :
         has \in {{"bass_energy", "mid_energy", "high_energy", "dynamic_range",
                   "stereo_width", "rms_energy"},
                  {"bass_energy", "mid_energy", "high_energy"}},
         e \in ShareGrid,
         dynamic_range \in {0, 9, 10, 50, 90, 91},
         stereo_width \in {0, 19, 20, 90, 91},
         rms \in {0, 9, 10, 80, 81}}

CallAnalyzeImprovementAreas ==
    /\ assessment.op = "none"
    /\ \E features \in AreaMappings :
           assessment' = [NoAssessment EXCEPT
                         !.op = "_analyze_improvement_areas",
                         !.mapping = features,
                         !.improvement_areas = AnalyzeImprovementAreas(features)]
    /\ UNCHANGED <<predVars, procVars, decVars, extVars>>

(***************************************************************************)
(* Specifications: one per component, the other components at rest after   *)
(* construction.                                                           *)
(***************************************************************************)
\* MixPredictor(): model_type defaults to 'random_forest'.
PredRest == PredInit /\ model_type = "random_forest"

ProcRest == ProcInitWith(<<50, -100>>)

DecRest == DecInitWith([frequency_balance |-> Balance(5, 75, 20),
                        dynamic_range |-> 90, rms_energy |-> 20])

\* librosa is installed (optimizer.py imports it unconditionally).
ExtRest == ExtInitWith(TRUE)

InitPredictor == PredInit /\ ProcRest /\ DecRest /\ ExtRest /\ AssessRest

InitProcessor == PredRest /\ ProcInit /\ DecRest /\ ExtRest /\ AssessRest

InitDecide == PredRest /\ ProcRest /\ DecInit /\ ExtRest /\ AssessRest

InitExtract == PredRest /\ ProcRest /\ DecRest /\ ExtInit /\ AssessRest

\* The pipeline on one processor: decide on the feature record, apply the
\* chain decided to a live buffer, decide again.
EngineFeatureRecords ==
    {[frequency_balance |-> Balance(5, 75, 20), dynamic_range |-> 90, rms_energy |-> 20],
     [frequency_balance |-> Balance(60, 50, 4), dynamic_range |-> 50, rms_energy |-> 5],
     [frequency_balance |-> Balance(0, 0, 0), dynamic_range |-> 71, rms_energy |-> 0],
     [frequency_balance |-> <<>>, dynamic_range |-> 10, rms_energy |-> 5]}

InitEngine ==
    /\ PredRest /\ ProcRest /\ ExtRest /\ AssessRest
    /\ \E features \in EngineFeatureRecords : DecInitWith(features)

CallApplyDecidedChain ==
    /\ decision.op = "generate_adaptive_chain"
    /\ \E ref \in 1..Len(heap) : ApplyProcessingChain(ref, decision.chain)

EngineNext == DecNext \/ CallApplyDecidedChain

SpecEngine == InitEngine /\ [][EngineNext]_vars

SpecExtract == InitExtract /\ [][ExtNext]_vars

\* apply_compression as a function of its arguments: one call on the buffer
\* and mapping drawn.
CompressionInputs == {<<50, -100>>, <<0, 30, 90>>, <<100, 100, -100, 5>>, <<0, 0>>}

CompressionGrid ==
    {CompParams(threshold, ratio, attack, release) :
         threshold \in {-300, -150, -120, 0, 30},
         ratio \in {5, 10, 11, 35, 40, 200},
         attack \in {0, 10, 15},
         release \in {0, 100}}
      \cup {NoParams, [NoParams EXCEPT !.has = {"threshold"}, !.threshold = -200]}

InitCompress ==
    /\ PredRest /\ DecRest /\ ExtRest /\ AssessRest
    /\ \E audio \in CompressionInputs : ProcInitWith(audio)

CallApplyCompressionOnce ==
    /\ last.op = "none"
    /\ \E comp_params \in CompressionGrid :
           PrimitiveCall("apply_compression", 1, comp_params,
                         ApplyCompression(heap, 1, comp_params))

SpecCompress == InitCompress /\ [][CallApplyCompressionOnce]_vars

\* _apply_high_pass as a function of its arguments, on the buffers drawn and
\* on the buffers earlier calls returned.
HighPassInputs == InputBuffers \cup {<<NaN, 50>>, <<100, 100, -100, 5>>}

HighPassGrid ==
    {EqEntry("high_pass", {"freq", "q"}, freq, 0, 70) :
         freq \in {-100, 0, 1, 80, 1000, Nyquist - 1, Nyquist, Nyquist + 1, 30000}}
      \cup {EqEntry("high_pass", {}, 0, 0, 0)}

InitHighPass ==
    /\ PredRest /\ DecRest /\ ExtRest /\ AssessRest
    /\ \E audio \in HighPassInputs : ProcInitWith(audio)

CallApplyHighPass ==
    \E ref \in 1..Len(heap) : \E q \in HighPassGrid :
        PrimitiveCall("_apply_high_pass", ref, q, ApplyHighPass(heap, ref, q))

SpecHighPass == InitHighPass /\ [][CallApplyHighPass]_vars

\* A synchronous caller's predictor: the lifecycle calls and whole predict
\* calls.
SpecAssessment == InitPredictor /\ [][AssessmentNext]_vars

InitAreas == PredRest /\ ProcRest /\ DecRest /\ ExtRest /\ AssessRest

SpecAreas == InitAreas /\ [][CallAnalyzeImprovementAreas]_vars

\* apply_processing_chain on chains with a step that raises: an eq step
\* whose high shelf makes signal.butter raise after its low shelf was
\* applied, and a compression step whose threshold overflows 10**(x/20).
PartialEqStep ==
    Step("eq", EqParams(<<EqEntry("low_shelf", {"freq", "gain", "q"}, 100, 25, 70),
                          EqEntry("high_shelf", {"freq", "gain"}, 0, 20, 0)>>))

OverflowCompressionStep == Step("compression", CompParams(70000, 35, 0, 0))

FailingChains ==
    {Chain("custom", steps, NoTarget, 0) :
         steps \in {<<PartialEqStep>>,
                    <<PartialEqStep, TapeStep>>,
                    <<LowShelfStep, PartialEqStep, CompressionStep>>,
                    <<BadEqStep, CompressionStep>>,
                    <<OverflowCompressionStep, LowShelfStep>>,
                    <<LowShelfStep, TapeStep>>}}

CallApplyFailingChain ==
    \E ref \in 1..Len(heap), chain \in FailingChains : ApplyProcessingChain(ref, chain)

SpecFailingSteps == InitProcessor /\ [][CallApplyFailingChain]_vars

\* The saturation primitive on every kind of type, next to the pipeline that
\* decides a chain and applies it, on a quiet and on a loud buffer.
SaturationTypeGrid ==
    {SatParams(15, "soft"), SatParams(15, "tape"), SatParams(50, "Soft"),
     [NoParams EXCEPT !.has = {"drive"}, !.drive = 15]}

InitSaturation ==
    /\ PredRest /\ ExtRest /\ AssessRest
    /\ \E audio \in {<<50, -100>>, <<150, -200, 90>>} : ProcInitWith(audio)
    /\ \E features \in {[frequency_balance |-> Balance(5, 75, 20),
                         dynamic_range |-> 90, rms_energy |-> 20],
                        [frequency_balance |-> Balance(60, 50, 4),
                         dynamic_range |-> 50, rms_energy |-> 5]} :
           DecInitWith(features)

CallDecideForStyle ==
    \E target_style \in {"warm", "vintage", "bright"} :
        CallGenerateAdaptiveChain(target_style)

CallApplySaturationTypes ==
    \E ref \in 1..Len(heap), params \in SaturationTypeGrid :
        PrimitiveCall("_apply_saturation", ref, params,
                      ApplySaturation(heap, ref, params))

SaturationNext ==
    CallDecideForStyle \/ CallApplyDecidedChain \/ CallApplySaturationTypes

SpecSaturation == InitSaturation /\ [][SaturationNext]_vars

SpecPredictor == InitPredictor /\ [][PredNext]_vars

SpecSequential == InitPredictor /\ [][SeqNext]_vars

SpecProcessor == InitProcessor /\ [][ProcNext]_vars

SpecDecide == InitDecide /\ [][DecNext]_vars

(***************************************************************************)
(* Claims about MixPredictor                                               *)
(***************************************************************************)

\* C1: as long as no train_quality_model call has fitted and flagged a model
\* and no load_model call has completed, a predict_mix_quality call ends at
\* once with "Model must be trained before prediction" and leaves
\* quality_model, scaler, feature_names and is_trained as they were.
C1_PredictBeforeTrainingFails ==
    [][(npred' = npred + 1 /\ ~fit_done) =>
          /\ \A t \in Threads : pc[t] = "idle" => pc'[t] = "idle"
          /\ outcome'.op = "predict"
          /\ outcome'.result = NotTrainedError
          /\ UNCHANGED <<quality_model, scaler, feature_names, is_trained>>]_vars

\* A predict call failed as "not trained" on a predictor whose scaler is
\* fitted and whose regressor was constructed by a train call that failed.
C1_Witness ==
    /\ outcome.op = "predict"
    /\ outcome.result = NotTrainedError
    /\ ~fit_done
    /\ scaler.fitted
    /\ feature_names = FeatureColumns
    /\ quality_model.kind # "None"

\* C2: a predict call that returns a assessment, on a predictor only ever
\* trained by prepare_training_data followed by train_quality_model, has read
\* feature_names, scaler and quality_model of one and the same training run.
C2_PredictReadsOneRun ==
    (/\ outcome.op = "predict"
     /\ outcome.result = "ok"
     /\ raw = {}
     /\ {outcome.used_names, outcome.used_scaler, outcome.used_model} \subseteq prepared)
    => /\ outcome.used_scaler = outcome.used_model
       /\ outcome.used_names = outcome.used_model

\* C3: once two or more training runs (prepare_training_data, then
\* train_quality_model) have all returned normally and nobody is in a call,
\* the stored scaler, feature_names and quality_model are those of one run.
C3_RunsDoNotInterleave ==
    (/\ \A t \in Threads : pc[t] = "idle"
     /\ raw = {}
     /\ Cardinality(prepared) >= 2
     /\ completed = prepared
     /\ {names_run, scaler.run, quality_model.run} \subseteq prepared)
    => /\ scaler.run = quality_model.run
       /\ names_run = quality_model.run

(***************************************************************************)
(* Claims about AudioProcessor.apply_processing_chain and the primitives   *)
(***************************************************************************)
\* C4: apply_processing_chain attempts every step of the chain in chain
\* order, a step that raises never stops the following ones, and for every
\* chain the call returns (processed, report) instead of raising.
C4_EveryStepAttemptedAndNeverRaises ==
    last.op = "apply_processing_chain" =>
        /\ Len(last.status) = Len(last.chain.steps)
        /\ ~last.raised

\* C5: steps_applied lists, in chain order, exactly the kinds of the steps
\* an eq, compression or saturation primitive applied; a step that raised
\* appears once in processing_artifacts as 'Error in KIND: TEXT' and not
\* in steps_applied; no step that was not applied is listed.
C5_StepsAppliedAreTheStepsApplied ==
    (last.op = "apply_processing_chain" /\ ~last.raised) =>
        LET steps == last.chain.steps
            applied[i \in 0..Len(steps)] ==
                IF i = 0 THEN <<>>
                ELSE IF last.status[i] = "applied"
                       THEN Append(applied[i - 1], steps[i].type)
                       ELSE applied[i - 1]
            failed[i \in 0..Len(steps)] ==
                IF i = 0 THEN <<>>
                ELSE IF last.status[i] = "raised"
                       THEN Append(failed[i - 1], "Error in " \o steps[i].type \o ": ")
                       ELSE failed[i - 1]
            artifacts == last.report.processing_artifacts
        IN  /\ last.report.steps_applied = applied[Len(steps)]
            /\ Len(artifacts) = Len(failed[Len(steps)])
            /\ \A k \in 1..Len(artifacts) :
                   LET prefix == failed[Len(steps)][k]
                   IN  \E text \in {OverflowText, ButterText} :
                           artifacts[k] = prefix \o text

\* C6: a chain with zero steps returns a buffer sample-for-sample identical
\* to the input, with before_rms = after_rms and empty steps_applied and
\* processing_artifacts.
C6_EmptyChainIsIdentity ==
    (last.op = "apply_processing_chain" /\ last.chain.steps = <<>> /\ ~last.raised) =>
        /\ heap[last.out_ref] = last.in_before
        /\ last.report.before_rms = last.report.after_rms
        /\ last.report.steps_applied = <<>>
        /\ last.report.processing_artifacts = <<>>

C6_Witness ==
    /\ last.op = "apply_processing_chain"
    /\ last.chain.steps = <<>>
    /\ ~last.raised
    /\ last.out_ref # last.in_ref
    /\ last.report.before_rms > 0

\* C7: no processing operation modifies the caller's input buffer, and the
\* buffer it returns is a new object, never the input itself, for every
\* parameter mapping including an empty one.
C7_ResultIsNewBufferInputUntouched ==
    (last.op # "none" /\ ~last.raised) =>
        /\ heap[last.in_ref] = last.in_before
        /\ last.out_ref # last.in_ref

\* C8: the history starts empty, each apply_processing_chain call appends
\* exactly one entry and nothing removes one, so the history length equals
\* the number of apply_processing_chain calls made.
C8_HistoryLengthIsCallCount == Len(processing_history) = nchain

(***************************************************************************)
(* Claims about the decision engine                                        *)
(***************************************************************************)
\* C9: one decision call (generate_adaptive_chain, suggest_processing_chain)
\* never emits both a low-shelf bass boost and a high-pass: the eq parameters
\* hold at most one of the keys low_shelf and high_pass.
C9_BoostAndHighPassExclusive ==
    /\ decision.op = "generate_adaptive_chain" =>
           \A i \in 1..Len(decision.chain.steps) :
               decision.chain.steps[i].type = "eq" =>
                   ~({"low_shelf", "high_pass"} \subseteq decision.chain.steps[i].params.has)
    /\ decision.op = "suggest_processing_chain" =>
           ~({"low_shelf", "high_pass"}
                \subseteq {decision.suggestions.eq[i].name :
                               i \in 1..Len(decision.suggestions.eq)})

C9_Witness ==
    /\ decision.op = "generate_adaptive_chain"
    /\ 100 * Band(audio_features.frequency_balance, "bass")
           > 35 * TotalEnergy(audio_features.frequency_balance)
    /\ \E i \in 1..Len(decision.chain.steps) :
           decision.chain.steps[i].params.has = {"high_pass", "high_shelf"}

\* C10 as stated: for every feature record with balance[bass] < 0.15 and
\* dynamic_range above the compression threshold under style 'balanced', the
\* chain holds an eq step with a 100 Hz low-shelf boost and a compression
\* step whose threshold lies in [-15, -12] dB.
C10_LowBassGetsBoostAndCompression ==
    (/\ decision.op = "generate_adaptive_chain"
     /\ decision.target_style = "balanced"
     /\ "bass" \in DOMAIN audio_features.frequency_balance
     /\ audio_features.frequency_balance["bass"] < 15
     /\ audio_features.dynamic_range > 70) =>
        /\ \E i \in 1..Len(decision.chain.steps) :
               /\ decision.chain.steps[i].type = "eq"
               /\ \E k \in 1..Len(decision.chain.steps[i].params.eq) :
                      LET e == decision.chain.steps[i].params.eq[k]
                      IN  e.name = "low_shelf" /\ e.freq = 100 /\ e.gain > 0
        /\ \E i \in 1..Len(decision.chain.steps) :
               /\ decision.chain.steps[i].type = "compression"
               /\ decision.chain.steps[i].params.threshold \in -150..-120

\* C10 amended: for every feature record whose balance has a positive sum
\* and balance[bass] / sum(balance) < 0.15, with dynamic_range > 0.7, under
\* style 'balanced', generate_adaptive_chain's chain holds an eq step with a
\* 100 Hz low-shelf boost and a compression step with threshold -15 dB.
C10_LowBassShareGetsBoostAndCompression ==
    (/\ decision.op = "generate_adaptive_chain"
     /\ decision.target_style = "balanced"
     /\ DOMAIN audio_features.frequency_balance # {}
     /\ TotalEnergy(audio_features.frequency_balance) > 0
     /\ 100 * Band(audio_features.frequency_balance, "bass")
            < 15 * TotalEnergy(audio_features.frequency_balance)
     /\ audio_features.dynamic_range > 70) =>
        /\ \E i \in 1..Len(decision.chain.steps) :
               /\ decision.chain.steps[i].type = "eq"
               /\ \E k \in 1..Len(decision.chain.steps[i].params.eq) :
                      LET e == decision.chain.steps[i].params.eq[k]
                      IN  e.name = "low_shelf" /\ e.freq = 100 /\ e.gain > 0
        /\ \E i \in 1..Len(decision.chain.steps) :
               /\ decision.chain.steps[i].type = "compression"
               /\ decision.chain.steps[i].params.threshold = -150

C10_Witness ==
    /\ decision.op = "generate_adaptive_chain"
    /\ decision.target_style = "balanced"
    /\ audio_features.frequency_balance = Balance(5, 75, 20)
    /\ audio_features.dynamic_range = 90
    /\ Len(decision.chain.steps) = 2

\* C11 as stated, the highs ratio being balance[highs]: a high-shelf boost
\* is added if and only if the highs ratio is below 0.08 and the style is
\* 'bright' or 'balanced'.
C11_HighShelfIffLowHighsAndStyle ==
    decision.op = "generate_adaptive_chain" =>
        ((\E i \in 1..Len(decision.chain.steps) :
              /\ decision.chain.steps[i].type = "eq"
              /\ "high_shelf" \in decision.chain.steps[i].params.has)
         <=> (/\ Band(audio_features.frequency_balance, "highs") < 8
              /\ decision.target_style \in {"bright", "balanced"}))

\* C11 amended: generate_adaptive_chain adds a high-shelf boost (10000 Hz,
\* +1.8 dB) if and only if total_energy (the sum of the balance, 1 for an
\* empty mapping) is positive, balance.get('highs', 0) / total_energy < 0.08
\* and the style is 'bright' or 'balanced'; for every other style no
\* high-shelf is emitted.
C11_HighShelfIffLowHighsShareAndStyle ==
    decision.op = "generate_adaptive_chain" =>
        LET balance == audio_features.frequency_balance
            shelves == {<<i, k>> \in (1..Len(decision.chain.steps)) \X (1..2) :
                           /\ decision.chain.steps[i].type = "eq"
                           /\ k <= Len(decision.chain.steps[i].params.eq)
                           /\ decision.chain.steps[i].params.eq[k].name = "high_shelf"}
        IN  /\ (shelves # {}) <=>
                   (/\ TotalEnergy(balance) > 0
                    /\ 100 * Band(balance, "highs") < 8 * TotalEnergy(balance)
                    /\ decision.target_style \in {"bright", "balanced"})
            /\ \A s \in shelves :
                   LET e == decision.chain.steps[s[1]].params.eq[s[2]]
                   IN  e.freq = 10000 /\ e.gain = 18

C11_Witness ==
    /\ decision.op = "generate_adaptive_chain"
    /\ decision.target_style = "bright"
    /\ audio_features.frequency_balance = Balance(35, 50, 7)
    /\ \E i \in 1..Len(decision.chain.steps) :
           "high_shelf" \in decision.chain.steps[i].params.has

\* C12: for every feature record whose dynamic_range is below the
\* over-compression threshold (0.2) the decision output carries the
\* 'gentle_expansion' marker and no compression step, and for every record
\* the marker and a compression step never occur together.
C12_LowDynamicsGetExpansionMarker ==
    LET chain_marker == \E i \in 1..Len(decision.chain.steps) :
                            decision.chain.steps[i].type = "gentle_expansion"
        chain_compression == \E i \in 1..Len(decision.chain.steps) :
                                 decision.chain.steps[i].type = "compression"
        suggested_marker == \E k \in 1..Len(decision.suggestions.effects) :
                                decision.suggestions.effects[k] = "gentle_expansion"
        suggested_compression == decision.suggestions.compression.has # {}
    IN  /\ decision.op = "suggest_processing_chain" =>
               /\ audio_features.dynamic_range < 20 =>
                      suggested_marker /\ ~suggested_compression
               /\ ~(suggested_marker /\ suggested_compression)
        /\ decision.op = "generate_adaptive_chain" =>
               /\ audio_features.dynamic_range < 20 =>
                      chain_marker /\ ~chain_compression
               /\ ~(chain_marker /\ chain_compression)

\* C13: generate_adaptive_chain appends a saturation step with drive 0.15
\* and type 'tape' if and only if the style is 'warm' or 'vintage', whatever
\* the frequency balance and dynamic range of the record.
C13_SaturationIffWarmOrVintage ==
    decision.op = "generate_adaptive_chain" =>
        LET steps == decision.chain.steps
            saturations == {i \in 1..Len(steps) : steps[i].type = "saturation"}
        IN  /\ (saturations # {}) <=> decision.target_style \in {"warm", "vintage"}
            /\ Cardinality(saturations) <= 1
            /\ \A i \in saturations :
                   /\ i = Len(steps)
                   /\ steps[i].params.has = {"drive", "type"}
                   /\ steps[i].params.drive = 15
                   /\ steps[i].params.type = "tape"

C13_Witness ==
    /\ decision.op = "generate_adaptive_chain"
    /\ decision.target_style = "vintage"
    /\ audio_features.frequency_balance = Balance(15, 50, 20)
    /\ audio_features.dynamic_range = 50
    /\ decision.chain.steps = <<Step("saturation", SatParams(15, "tape"))>>

\* C14: for every feature record and style the returned chain is named
\* adaptive_STYLE and its estimated_improvement equals
\* min(0.8, 0.2 * number of steps), hence never exceeds 0.8.
C14_NameAndEstimatedImprovement ==
    decision.op = "generate_adaptive_chain" =>
        /\ decision.chain.name = "adaptive_" \o decision.target_style
        /\ decision.chain.estimated_improvement
               = (IF 20 * Len(decision.chain.steps) < 80
                    THEN 20 * Len(decision.chain.steps) ELSE 80)
        /\ decision.chain.estimated_improvement <= 80

C14_Witness ==
    /\ decision.op = "generate_adaptive_chain"
    /\ decision.chain.name = "adaptive_warm"
    /\ Len(decision.chain.steps) = 3
    /\ decision.chain.estimated_improvement = 60

C16_RaisesOnlyOnEmptyElseSafeDefault ==
    analysis.op = "extract_features" =>
        /\ analysis.raised <=> (analysis.audio.kind = "None" \/ analysis.audio.len = 0)
        /\ (/\ ~analysis.raised
            /\ \/ analysis.audio.kind # "ndarray"
               \/ HAS_LIBROSA /\ analysis.audio.len > 1024
                      /\ analysis.audio.dtype # "float")
               => analysis.features = SafeDefaults

\* C16 amended: extract_features raises (ValueError) only for a None or
\* empty buffer and returns a record for every other one; when the
\* arithmetic on the buffer fails the record is the safe-default record;
\* when librosa refuses the array the record keeps the computed rms,
\* dynamic range, stereo width and peak frequency and carries centroid 1000,
\* rolloff 8000 and the balance {bass 0.3, low_mids 0.2, mids 0.3,
\* high_mids 0.15, highs 0.05}.
C16_RaisesOnlyOnEmptyElseStepwiseDefaults ==
    analysis.op = "extract_features" =>
        /\ analysis.raised <=> (analysis.audio.kind = "None" \/ analysis.audio.len = 0)
        /\ (~analysis.raised /\ analysis.audio.kind # "ndarray")
               => analysis.features = SafeDefaults
        /\ (/\ ~analysis.raised
            /\ analysis.audio.kind = "ndarray"
            /\ HAS_LIBROSA /\ analysis.audio.len > 1024
            /\ analysis.audio.dtype # "float")
               => /\ analysis.features.spectral_centroid = 1000
                  /\ analysis.features.spectral_rolloff = 8000
                  /\ analysis.features.frequency_balance = Bands(30, 20, 30, 15, 5)
                  /\ analysis.features.rms_energy = analysis.audio.rms
                  /\ analysis.features.dynamic_range = analysis.audio.range
                  /\ analysis.features.peak_frequency = analysis.audio.peak_frequency

C16_Witness ==
    /\ analysis.op = "extract_features"
    /\ HAS_LIBROSA
    /\ analysis.audio.dtype = "int16"
    /\ ~analysis.raised
    /\ analysis.features.rms_energy = 21
    /\ analysis.features.spectral_centroid = 1000

\* C17: the frequency-balance ratios produced by extraction (the full
\* path, the FFT fallback path, SimpleAnalyzer's three ratios) sum to 1
\* whenever the total band energy is greater than 0 and are all 0 otherwise.
C17_RatiosSumToOneOrAreZero ==
    /\ (analysis.op = "extract_features" /\ ~analysis.raised) =>
           LET balance == analysis.features.frequency_balance
               computed == /\ analysis.audio.kind = "ndarray"
                           /\ ~(HAS_LIBROSA /\ analysis.audio.len > 1024
                                    /\ analysis.audio.dtype # "float")
           IN  /\ \/ SumValues(balance, DOMAIN balance) = One
                  \/ \A b \in DOMAIN balance : balance[b] = 0
               /\ computed =>
                      (TotalBandEnergy(analysis.audio.magnitude) > 0
                          <=> SumValues(balance, DOMAIN balance) = One)
    /\ (analysis.op = "analyze_basic_stats" /\ ~analysis.raised) =>
           LET s == analysis.stats
               total == BandEnergy(analysis.audio.magnitude, "bass")
                          + BandEnergy(analysis.audio.magnitude, "low_mids")
                          + BandEnergy(analysis.audio.magnitude, "mids")
                          + BandEnergy(analysis.audio.magnitude, "high_mids")
                          + BandEnergy(analysis.audio.magnitude, "highs")
           IN  IF total > 0 THEN s.bass_ratio + s.mid_ratio + s.high_ratio = One
               ELSE s.bass_ratio = 0 /\ s.mid_ratio = 0 /\ s.high_ratio = 0

C17_Witness ==
    /\ analysis.op = "extract_features"
    /\ analysis.audio.len = 1024
    /\ analysis.audio.magnitude = Bands(50, 0, 150, 0, 0)
    /\ analysis.features.frequency_balance = Bands(25, 0, 75, 0, 0)

\* C18: every feature record extract_features returns (computed, built
\* from the inner frequency-analysis fallback, or the safe default) has
\* frequency_balance keys {bass, low_mids, mids, high_mids, highs}.
C18_BalanceKeysAreTheFiveBands ==
    (analysis.op = "extract_features" /\ ~analysis.raised) =>
        DOMAIN analysis.features.frequency_balance
            = {"bass", "low_mids", "mids", "high_mids", "highs"}

\* C19: stereo_width lies in [0, 1]: a mono buffer reports 0, a 2-channel
\* buffer reports 1 - |correlation(left, right)| clamped to [0, 1], and a
\* NaN correlation is reported as 0.5, never as NaN.
C19_StereoWidthInUnitInterval ==
    (analysis.op = "extract_features" /\ ~analysis.raised
        /\ analysis.audio.kind = "ndarray") =>
        LET width == analysis.features.stereo_width
            correlation == Corrcoef(analysis.audio.left, analysis.audio.right)
        IN  /\ width \in 0..One
            /\ analysis.audio.ndim = 1 => width = 0
            /\ analysis.audio.ndim = 2 =>
                   width = (IF correlation = NaN THEN 50
                            ELSE Min(One, Max(0, One - Abs(correlation))))

(***************************************************************************)
(* Claims about apply_compression                                          *)
(***************************************************************************)
\* C20: for every input buffer, threshold, attack and release,
\* apply_compression with ratio > 1 never increases amplitude: the gain of
\* each sample lies in (0, 1], so |output[i]| <= |input[i]| for every
\* sample (the sign kept) and max|output| <= max|input|.
C20_CompressionNeverIncreasesAmplitude ==
    (/\ last.op = "apply_compression"
     /\ ~last.raised
     /\ Get(last.params, "ratio", 40) > 10) =>
        LET input == last.in_before
            output == heap[last.out_ref]
        IN  /\ Len(output) = Len(input)
            /\ \A i \in 1..Len(input) :
                   /\ Abs(output[i]) <= Abs(input[i])
                   /\ output[i] * input[i] >= 0
            /\ PeakOf(output) <= PeakOf(input)

C20_Witness ==
    /\ last.op = "apply_compression"
    /\ ~last.raised
    /\ last.params = CompParams(-150, 35, 0, 0)
    /\ last.in_before = <<100, 100, -100, 5>>
    /\ PeakOf(heap[last.out_ref]) < 100

(***************************************************************************)
(* Claims about the high-pass primitive                                    *)
(***************************************************************************)
\* C21: for every buffer and corner frequency _apply_high_pass returns a
\* buffer as long as its input without raising: all zeros when the corner
\* is at or above Nyquist, the input itself when the corner is <= 0.
C21_HighPassCorners ==
    last.op = "_apply_high_pass" =>
        LET freq == Get(last.params, "freq", 80)
        IN  /\ ~last.raised
            /\ Len(heap[last.out_ref]) = Len(last.in_before)
            /\ freq >= Nyquist =>
                   \A i \in 1..Len(last.in_before) : heap[last.out_ref][i] = 0
            /\ freq <= 0 =>
                   /\ last.out_ref = last.in_ref
                   /\ heap[last.out_ref] = last.in_before

C21_Witness ==
    /\ last.op = "_apply_high_pass"
    /\ Get(last.params, "freq", 80) = Nyquist
    /\ last.in_before = <<50, -100>>
    /\ heap[last.out_ref] = <<0, 0>>
    /\ ncalls = 2

(***************************************************************************)
(* Claims about the assessment of predict_mix_quality                         *)
(***************************************************************************)
\* C22: for every trained model and feature mapping, a predict_mix_quality
\* call that returns gives overall_quality = clamp(raw prediction / 10, 0, 1)
\* in [0, 1], predicted_rating = 10 x overall_quality and the one category
\* of overall_quality: professional from 0.8, good from 0.6, needs_work
\* from 0.4, requires_major_improvement below.
C22_QualityClampedAndCategorized ==
    (assessment.op = "predict_mix_quality" /\ ~assessment.raised) =>
        LET q == assessment.overall_quality
            scaled == Div(assessment.raw, 10)
        IN  /\ q \in 0..1000
            /\ q = (IF scaled < 0 THEN 0 ELSE IF scaled > 1000 THEN 1000 ELSE scaled)
            /\ assessment.predicted_rating = 10 * q
            /\ assessment.quality_category \in QualityCategories
            /\ assessment.quality_category = "professional" <=> q >= 800
            /\ assessment.quality_category = "good" <=> (q >= 600 /\ q < 800)
            /\ assessment.quality_category = "needs_work" <=> (q >= 400 /\ q < 600)
            /\ assessment.quality_category = "requires_major_improvement" <=> q < 400

C22_Witness ==
    /\ assessment.op = "predict_mix_quality"
    /\ ~assessment.raised
    /\ is_trained
    /\ assessment.raw = 8000
    /\ assessment.overall_quality = 800
    /\ assessment.quality_category = "professional"

\* C23: the improvement-area tags are a function of the feature values by
\* the fixed thresholds: each tag is present exactly when its threshold
\* test holds (the bass and brightness tests only when bass + mid + high
\* energy is positive), so the two tags of an opposing pair never occur
\* together, and no tag occurs twice.
C23_TagsFollowThresholds ==
    assessment.op \in {"_analyze_improvement_areas", "predict_mix_quality"}
      /\ ~assessment.raised =>
        LET f == assessment.mapping
            tags == assessment.improvement_areas
            Has(tag) == \E i \in 1..Len(tags) : tags[i] = tag
            bass == Get(f, "bass_energy", 0)
            mid == Get(f, "mid_energy", 0)
            high == Get(f, "high_energy", 0)
            total == bass + mid + high
            dynamic_range == Get(f, "dynamic_range", 0)
            stereo_width == Get(f, "stereo_width", 50)
            rms == Get(f, "rms_energy", 0)
        IN  /\ Has("insufficient_low_end") <=> (total > 0 /\ 10 * bass < total)
            /\ Has("excessive_bass") <=> (total > 0 /\ 100 * bass > 45 * total)
            /\ Has("lacks_brightness") <=> (total > 0 /\ 100 * high < 5 * total)
            /\ Has("over_compressed") <=> dynamic_range < 10
            /\ Has("needs_compression") <=> dynamic_range > 90
            /\ Has("too_narrow") <=> stereo_width < 20
            /\ Has("too_wide") <=> stereo_width > 90
            /\ Has("too_quiet") <=> rms < 10
            /\ Has("too_loud") <=> rms > 80
            /\ ~(Has("insufficient_low_end") /\ Has("excessive_bass"))
            /\ ~(Has("over_compressed") /\ Has("needs_compression"))
            /\ ~(Has("too_narrow") /\ Has("too_wide"))
            /\ ~(Has("too_quiet") /\ Has("too_loud"))
            /\ \A i, j \in 1..Len(tags) : tags[i] = tags[j] => i = j
            /\ total = 0 => \A i \in 1..Len(tags) :
                   tags[i] \notin {"insufficient_low_end", "excessive_bass",
                                   "lacks_brightness"}

C23_Witness ==
    /\ assessment.op = "_analyze_improvement_areas"
    /\ assessment.mapping.has = {"bass_energy", "mid_energy", "high_energy",
                              "dynamic_range", "stereo_width", "rms_energy"}
    /\ assessment.improvement_areas =
           <<"excessive_bass", "lacks_brightness", "needs_compression",
             "too_wide", "too_loud">>

\* C24: after load_model, a predict_mix_quality call whose feature mapping
\* does not have exactly the loaded feature names as its keys raises; it
\* never returns a prediction computed from the mismatched mapping.
C24_MismatchedMappingIsRejected ==
    (/\ assessment.op = "predict_mix_quality"
     /\ assessment.names_run = ArtifactRun
     /\ assessment.mapping.has # NamesOf(FeatureColumns)) => assessment.raised

(***************************************************************************)
(* Claims about a training run                                             *)
(***************************************************************************)
\* C25: in a training run (prepare_training_data, then train_quality_model
\* on the (X, y) it returned) no row of the validation split is among the
\* rows the scaler was fitted on, for every validation_split.
C25_ScalerFittedOnTrainingSplitOnly ==
    \A t \in Threads :
        (/\ pc[t] \in {"train_fit", "train_flag", "train_metrics"}
         /\ scaler.fitted
         /\ scaler.run = loc[t].run) =>
            scaler.rows \cap loc[t].val_rows = {}

\* C26: between the operations of a MixPredictor used by one call at a
\* time, is_trained holds only if quality_model is a fitted regressor, the
\* scaler is fitted and feature_names is the non-empty list of the run both
\* were fitted on.
C26_TrainedMeansModelScalerAndNames ==
    ((\A t \in Threads : pc[t] = "idle") /\ is_trained) =>
        /\ quality_model.kind # "None"
        /\ quality_model.fitted
        /\ scaler.fitted
        /\ feature_names # <<>>
        /\ scaler.run = quality_model.run
        /\ names_run = quality_model.run

(***************************************************************************)
(* Claims about failing steps of a chain                                   *)
(***************************************************************************)
\* C27: when a step raises during apply_processing_chain, the buffer handed
\* to the next step (or returned, after the last) is exactly the buffer the
\* failed step was entered with, whatever the step had computed before it
\* raised.
C27_FailedStepHasNoEffect ==
    last.op = "apply_processing_chain" =>
        /\ Len(last.handed) = Len(last.status) + 1
        /\ \A i \in 1..Len(last.status) :
               last.status[i] = "raised" => last.handed[i + 1] = last.handed[i]

\* An eq step whose second adjustment raised after its low shelf had changed
\* the working copy, between two steps that changed the buffer.
C27_Witness ==
    /\ last.op = "apply_processing_chain"
    /\ last.chain.steps = <<LowShelfStep, PartialEqStep, CompressionStep>>
    /\ last.status = <<"applied", "raised", "applied">>
    /\ last.handed[2] # last.handed[1]
    /\ last.handed[3] = last.handed[2]
    /\ last.handed[4] # last.handed[3]
    /\ ApplyLowShelf(<<last.handed[2]>>, 1, PartialEqStep.params.eq[1]).heap[2]
           # last.handed[2]

\* C28: every chain generate_adaptive_chain returns has at most three
\* steps, of kinds in the order eq, compression, saturation and each kind
\* at most once (all EQ adjustments in the one eq step), so that
\* estimated_improvement is one of 0, 0.2, 0.4, 0.6 and stays below the
\* 0.8 cap.
C28_AtMostThreeStepsInFixedOrder ==
    decision.op = "generate_adaptive_chain" =>
        LET steps == decision.chain.steps
            Rank(type) == CASE type = "eq" -> 1
                            [] type = "compression" -> 2
                            [] type = "saturation" -> 3
                            [] OTHER -> 0
        IN  /\ Len(steps) <= 3
            /\ \A i \in 1..Len(steps) : Rank(steps[i].type) > 0
            /\ \A i, j \in 1..Len(steps) :
                   i < j => Rank(steps[i].type) < Rank(steps[j].type)
            /\ decision.chain.estimated_improvement \in {0, 20, 40, 60}
            /\ decision.chain.estimated_improvement < 80

\* Two EQ adjustments in the one eq step, followed by compression.
C28_Witness ==
    /\ decision.op = "generate_adaptive_chain"
    /\ decision.target_style = "balanced"
    /\ Len(decision.chain.steps) = 2
    /\ decision.chain.steps[1].type = "eq"
    /\ decision.chain.steps[1].params.has = {"low_shelf", "high_shelf"}
    /\ decision.chain.steps[2].type = "compression"
    /\ decision.chain.estimated_improvement = 40

(***************************************************************************)
(* Claims about the saturation primitive                                   *)
(***************************************************************************)
\* C29: _apply_saturation applies the tanh curve only when the type is
\* 'soft' or absent; every other type, 'tape' included, is clipped to
\* +-(1 - drive).  Hence a chain generate_adaptive_chain made for 'warm' or
\* 'vintage', applied with no step failing, returns samples of magnitude at
\* most 0.85.
C29_TapeIsHardClipping ==
    /\ (last.op = "_apply_saturation" /\ ~last.raised) =>
           LET input == last.in_before
               output == heap[last.out_ref]
               drive == Get(last.params, "drive", 10)
               sat_type == Get(last.params, "type", "soft")
           IN  /\ Len(output) = Len(input)
               /\ \A i \in 1..Len(input) :
                      IF sat_type = "soft"
                        THEN output[i] = Tanh(Div(input[i] * (One + drive), One))
                        ELSE output[i] = (IF input[i] > One - drive THEN One - drive
                                          ELSE IF input[i] < -(One - drive)
                                            THEN -(One - drive)
                                          ELSE input[i])
    /\ (/\ last.op = "apply_processing_chain"
        /\ ~last.raised
        /\ last.chain.name \in {"adaptive_warm", "adaptive_vintage"}
        /\ last.chain = decision.chain
        /\ \A i \in 1..Len(last.status) : last.status[i] = "applied") =>
           PeakOf(heap[last.out_ref]) <= 85

\* A warm chain that ended in the tape step and cut a loud buffer to 0.85.
C29_Witness ==
    /\ last.op = "apply_processing_chain"
    /\ ~last.raised
    /\ last.chain.name = "adaptive_warm"
    /\ last.chain = decision.chain
    /\ last.status[Len(last.status)] = "applied"
    /\ last.chain.steps[Len(last.chain.steps)] = Step("saturation", SatParams(15, "tape"))
    /\ PeakOf(last.handed[Len(last.status)]) > 85
    /\ PeakOf(heap[last.out_ref]) = 85

(***************************************************************************)
(* Claims about analyze_mix_balance                                        *)
(***************************************************************************)
\* C30: for every buffer analyze_mix_balance returns one score per band of
\* the analyzer's band set, and every score lies in [0, 1].
C30_BalanceScoresInUnitInterval ==
    (analysis.op = "analyze_mix_balance" /\ ~analysis.raised) =>
        /\ DOMAIN analysis.scores = {BandNames[i] : i \in 1..Len(BandNames)}
        /\ \A b \in DOMAIN analysis.scores :
               analysis.scores[b] >= 0 /\ analysis.scores[b] <= One

====
